---- MODULE Spec2Model ----
(***************************************************************************)
(* Semantic indexing and retrieval of SmartContentEngine:                  *)
(*   indexContent.js   chunkText, safeEmbedChunk, indexDocuments           *)
(*   generateQA.js     getChunkContent, generateQA                         *)
(*   generateAnswers.js  generateBlogPosts                                 *)
(*                                                                         *)
(* A text is a sequence of characters.  Characters are naturals; 0 is a    *)
(* whitespace character, every other number is a non-whitespace one.       *)
(***************************************************************************)
EXTENDS Integers, Sequences, FiniteSets, TLC

VARIABLES
    cText, cSize, cChunks, cPc,         \* one call chunkText(cText, cSize)
    files,            \* the data directory: the content files, in readdir order
    embedDims,        \* the vector lengths the embedding server may answer with
    iPc,              \* position of indexDocuments
    fi,               \* files already taken by the file loop
    docs,             \* Document list built by the file loop
    processedChunks,  \* chunks already taken by the embedding loop
    attempt,          \* safeEmbedChunk: attempt
    currentChunk,     \* safeEmbedChunk: currentChunk
    tried,            \* texts handed to embedDocuments for the current chunk
    log,              \* per finished chunk: how safeEmbedChunk ended
    fileLog,          \* per file taken by the file loop: what was logged for it
    thrown,           \* the error that rejected indexDocuments, or "none"
    validEmbeddings, validDocs,
    index,            \* the in-memory IndexFlatL2 of the run
    indexData,        \* the snapshot object of the run
    diskIndex,        \* faiss_index.json
    diskMapping,      \* docMapping.json
    rVariant,         \* the retrieving program: "qa" (generateQA) or "blog"
    rPc,              \* its position
    rFiles,           \* the content files of its data directory
    rIndexJson,       \* faiss_index.json as it finds it
    rMappingJson,     \* docMapping.json as it finds it
    rQuestions,       \* the query (qa) or the generated questions (blog)
    rQ,               \* questions already finished
    queryEmbedding,
    labels, distances, \* the search result
    rI,               \* results already taken by the resolving loop
    contextTexts,     \* generateQA: the resolved chunks
    rSources,         \* generateBlogPosts: sources and mappingReferences
    rWarned,          \* the ordinals logged as invalid for this question
    rPosts,           \* generateBlogPosts: the posts written
    rWhy,             \* why the program exited with 1, or "none"
    gVariant,         \* the context job: "urls" (generateContext.ts) or "data"
    gConcurrent,      \* whether POST /jobs/run may be served while a job runs
    gPages,           \* the rows of table pages, in SELECT order
    gSaved,           \* urls whose page_data has the target field
    gStore,           \* the Qdrant collection: point id -> [vector, payload]
    gForce,           \* per job run: payload.forceRedo
    gPc,              \* per job run: its position
    gList,            \* per job run: rowsPages
    gP,               \* per job run: rows already taken
    gItems,           \* per job run: the terms of the current page
    gT,               \* per job run: terms already taken
    gExisting,        \* per job run: what getExistingPoint returned
    gEmbedCalls,      \* the number of getEmbedding calls made
    gStale,           \* writes made on a read that was no longer current
    gFailures,        \* the calls that failed so far, by kind
    repRows,          \* generateReport: the rows of table pages
    repIgnore,        \* generateReport: ignoreFields lists "interests"
    repPc,            \* generateReport: its position
    repResult,        \* generateReport: the report returned
    pFiles,           \* processFiles: the data files of the domain
    pStart,           \* processFiles: the data files when the run began
    pForce,           \* processFiles: options.force of the run
    pBatchSize,       \* processFiles: options.batchSize of the run
    pRun,             \* processFiles: the number of the run
    pPc,              \* processFiles: its position
    filesToProcess,   \* processFiles: the files the filter kept
    pI,               \* processInBatches: i
    pItems,           \* processBatch: position and data of each item
    pGen,             \* what generationFunction did for each file in this run
    aVersion,         \* app.ts: which of the two versions of the server runs
    aSecret,          \* process.env.API_SECRET_KEY
    aPublicJobs,      \* PUBLIC_JOBS
    aHandled          \* the POST /jobs/run requests handled, with their answers

chunkVars == <<cText, cSize, cChunks, cPc>>
indexVars == <<files, embedDims, iPc, fi, docs, processedChunks, attempt,
               currentChunk, tried, log, fileLog, thrown, validEmbeddings, validDocs,
               index, indexData, diskIndex, diskMapping>>
retrVars == <<rVariant, rPc, rFiles, rIndexJson, rMappingJson, rQuestions, rQ,
              queryEmbedding, labels, distances, rI, contextTexts, rSources,
              rWarned, rPosts, rWhy>>
ctxVars == <<gVariant, gConcurrent, gPages, gSaved, gStore, gForce, gPc, gList,
             gP, gItems, gT, gExisting, gEmbedCalls, gStale, gFailures>>
repVars == <<repRows, repIgnore, repPc, repResult>>
procVars == <<pFiles, pStart, pForce, pBatchSize, pRun, pPc, filesToProcess, pI, pItems, pGen>>
appVars == <<aVersion, aSecret, aPublicJobs, aHandled>>
vars == <<chunkVars, indexVars, retrVars, ctxVars, repVars, procVars, appVars>>

\* ------------------------------------------------------------- bounds
MaxTextLen == 6      \* characters of a text handed to chunkText directly
MaxChunkSize == 3    \* chunk sizes tried on chunkText directly
WordStep == 17       \* a content file holds a multiple of WordStep words
MaxSteps == 3        \* ... at most MaxSteps * WordStep of them
Dim == 2             \* vector length of the embedding model
MaxStale == 6        \* entries a stale Document Map may be short of the snapshot
MaxItems == 2        \* labels the LLM finds in one page
MaxFailures == 1     \* failing calls (LLM, embedding, store) in one scenario
MaxRequests == 2     \* POST /jobs/run requests handled
MaxRows == 2         \* rows of table pages read by the report
MaxInterests == 6    \* interests listed by one row
MaxFiles == 2        \* data files of the domain
MaxRuns == 2         \* runs of processFiles
MaxBatchSize == 2    \* options.batchSize

\* ---------------------------------------------------- program constants
CHUNK_SIZE == 50
MAX_ALLOWED_WORDS == 30
maxAttempts == 5
K == 5                      \* const k = 5 of both retrieving programs
CONFIG_chunkSize == 50      \* CONFIG.chunkSize of generateQA.js

\* ------------------------------------------------- JavaScript helpers
WS == 0

Min(a, b) == IF a < b THEN a ELSE b
Max(a, b) == IF a > b THEN a ELSE b

\* Array.prototype.slice(start, end), 0-based, end exclusive, clamped.
Slice(s, start, end) == SubSeq(s, start + 1, Min(end, Len(s)))

\* The pieces of the non-empty stretch text[lo..hi]: of one character, or of
\* its two halves, whose pieces meeting at the cut are one piece (and no
\* piece at all when a whitespace run spans the cut).
RECURSIVE SplitRange(_, _, _)
SplitRange(text, lo, hi) ==
    IF lo = hi
    THEN IF text[lo] = WS THEN << <<>>, <<>> >> ELSE << <<text[lo]>> >>
    ELSE LET mid == (lo + hi) \div 2
             L == SplitRange(text, lo, mid)
             R == SplitRange(text, mid + 1, hi)
             joint == L[Len(L)] \o R[1]
         IN  IF text[mid] = WS /\ text[mid + 1] = WS
             THEN SubSeq(L, 1, Len(L) - 1) \o SubSeq(R, 2, Len(R))
             ELSE SubSeq(L, 1, Len(L) - 1) \o <<joint>> \o SubSeq(R, 2, Len(R))

\* text.split(/\s+/): the pieces between maximal whitespace runs, the empty
\* pieces at either end included.
RegexSplit(text) == IF text = <<>> THEN << <<>> >> ELSE SplitRange(text, 1, Len(text))

\* text.split(/\s+/).filter(Boolean)
SplitWords(text) == SelectSeq(RegexSplit(text), LAMBDA w : w # <<>>)

RECURSIVE JoinRange(_, _, _)
JoinRange(words, lo, hi) ==
    IF lo > hi THEN <<>>
    ELSE IF lo = hi THEN words[lo]
    ELSE LET mid == (lo + hi) \div 2
         IN  JoinRange(words, lo, mid) \o <<WS>> \o JoinRange(words, mid + 1, hi)

\* words.join(' ')
JoinWords(words) == JoinRange(words, 1, Len(words))

\* the characters  {"content":"  and  "}  around the text of a .json file
JsonOpen == <<901>>
JsonClose == <<902>>

\* ---------------------------------------------------------- chunkText
RECURSIVE ChunkLoop(_, _, _, _)
ChunkLoop(words, i, chunkSize, chunks) ==
    IF i < Len(words)
    THEN ChunkLoop(words, i + chunkSize, chunkSize,
                   Append(chunks, JoinWords(Slice(words, i, i + chunkSize))))
    ELSE chunks

\* A chunker that ends every slice one word early.
chunkTextShortSlice(text, chunkSize) ==
    LET words == SplitWords(text)
        short == [j \in 1..Len(ChunkLoop(words, 0, chunkSize, <<>>)) |->
                    JoinWords(Slice(words, (j - 1) * chunkSize,
                                    Max((j - 1) * chunkSize + 1, j * chunkSize - 1)))]
    IN  short

chunkText(text, chunkSize) ==
    ChunkLoop(SplitWords(text), 0, chunkSize, <<>>)

\* ------------------------------------------- the embedding server
\* OllamaEmbeddings.embedDocuments([text]) on success: a vector of the given
\* length that is determined by the text (its first character and its word
\* count identify every slice of a content file).
EmbedVector(text, dim) ==
    LET words == SplitWords(text) IN
    [i \in 1..dim |-> IF i = 1 THEN (IF words = <<>> THEN 0 ELSE words[1][1])
                      ELSE IF i = 2 THEN Len(words) ELSE 0]

\* ------------------------------------------------------ faiss-node
\* new faiss.IndexFlatL2(d)
IndexFlatL2(d) == [d |-> d, rows |-> <<>>]

\* index.add(x) throws "Invalid the given array length." unless x holds whole rows
AddThrows(ix, x) == Len(x) % ix.d # 0

\* index.add(x): the rows of x, appended at the next ordinals
IndexAdd(ix, x) ==
    [ix EXCEPT !.rows = @ \o [r \in 1..(Len(x) \div ix.d) |->
                                 SubSeq(x, (r - 1) * ix.d + 1, r * ix.d)]]

RECURSIVE FlatRec(_, _)
FlatRec(vs, i) == IF i > Len(vs) THEN <<>> ELSE vs[i] \o FlatRec(vs, i + 1)

\* a flattening that puts the newest vector first
FlatNewestFirst(vs) == FlatRec([i \in 1..Len(vs) |-> vs[Len(vs) + 1 - i]], 1)

\* validEmbeddings.flat()
Flat(vs) == FlatRec(vs, 1)

RECURSIVE SumSq(_, _, _)
SumSq(a, b, i) ==
    IF i > Len(a) THEN 0 ELSE (a[i] - b[i]) * (a[i] - b[i]) + SumSq(a, b, i + 1)

\* squared L2 distance of two vectors of one length
L2(a, b) == SumSq(a, b, 1)

\* index.search(q, k) throws when k exceeds ntotal or q holds no whole rows
SearchThrows(ix, q, k) == k > Len(ix.rows) \/ Len(q) % ix.d # 0

\* ordinals before ordinal o in the result: nearer, or as near and lower
Before(ix, q, o) ==
    {p \in 0..(Len(ix.rows) - 1) :
        \/ L2(ix.rows[p + 1], q) < L2(ix.rows[o + 1], q)
        \/ (L2(ix.rows[p + 1], q) = L2(ix.rows[o + 1], q) /\ p < o)}

\* index.search(q, k) of one query: the k nearest rows, nearest first
Search(ix, q, k) ==
    LET lab == [r \in 1..k |->
                  CHOOSE o \in 0..(Len(ix.rows) - 1) :
                      Cardinality(Before(ix, q, o)) = r - 1]
    IN  [labels |-> lab,
         distances |-> [r \in 1..k |-> L2(ix.rows[lab[r] + 1], q)]]

\* ------------------------------------------------------------- JSON
\* A JSON text is a sequence of tokens [t, v]; v is the number of a number
\* token and 0 otherwise.  An absent file is the empty sequence.
Tok(t, v) == [t |-> t, v |-> v]

\* a snapshot writer that leaves out the last number of flatArray
StringifyIndexDataShort(d) ==
    <<Tok("{", 0), Tok("dim:", 0), Tok("num", d.dim),
      Tok("nbDocs:", 0), Tok("num", d.nbDocs), Tok("flatArray:", 0), Tok("[", 0)>>
    \o [i \in 1..(Len(d.flatArray) - 1) |-> Tok("num", d.flatArray[i])]
    \o <<Tok("]", 0), Tok("}", 0)>>

\* JSON.stringify({dim, nbDocs, flatArray})
StringifyIndexData(d) ==
    <<Tok("{", 0), Tok("dim:", 0), Tok("num", d.dim),
      Tok("nbDocs:", 0), Tok("num", d.nbDocs), Tok("flatArray:", 0), Tok("[", 0)>>
    \o [i \in 1..Len(d.flatArray) |-> Tok("num", d.flatArray[i])]
    \o <<Tok("]", 0), Tok("}", 0)>>

RECURSIVE TokIndex(_, _, _)
TokIndex(toks, t, i) ==
    IF i > Len(toks) THEN 0
    ELSE IF toks[i].t = t THEN i ELSE TokIndex(toks, t, i + 1)

RECURSIVE NumsFrom(_, _)
NumsFrom(toks, i) ==
    IF i > Len(toks) \/ toks[i].t # "num" THEN <<>>
    ELSE <<toks[i].v>> \o NumsFrom(toks, i + 1)

\* JSON.parse of faiss_index.json
ParseIndexData(toks) ==
    [dim       |-> toks[TokIndex(toks, "dim:", 1) + 1].v,
     nbDocs    |-> toks[TokIndex(toks, "nbDocs:", 1) + 1].v,
     flatArray |-> NumsFrom(toks, TokIndex(toks, "[", 1) + 1)]

RECURSIVE StringifyMetas(_, _)
StringifyMetas(metas, i) ==
    IF i > Len(metas) THEN <<>>
    ELSE <<Tok("{", 0), Tok("source:", 0), Tok("num", metas[i].source),
           Tok("chunkIndex:", 0), Tok("num", metas[i].chunkIndex),
           Tok("totalChunks:", 0), Tok("num", metas[i].totalChunks), Tok("}", 0)>>
         \o StringifyMetas(metas, i + 1)

\* JSON.stringify(docMapping)
StringifyMapping(metas) == <<Tok("[", 0)>> \o StringifyMetas(metas, 1) \o <<Tok("]", 0)>>

RECURSIVE ParseMetas(_, _)
ParseMetas(toks, i) ==
    IF i > Len(toks) \/ toks[i].t # "{" THEN <<>>
    ELSE <<[source |-> toks[i + 2].v, chunkIndex |-> toks[i + 4].v,
            totalChunks |-> toks[i + 6].v]>> \o ParseMetas(toks, i + 8)

\* JSON.parse of docMapping.json
ParseMapping(toks) == ParseMetas(toks, 2)

\* ---------------------------------------------------- safeEmbedChunk
\* Math.max(Math.floor(words.length * 0.8), 1)
NewLength(n) == Max((n * 8) \div 10, 1)

\* the while condition fails after this failure: attempt + 1 reaches maxAttempts
LastAttemptEarly(att) == att + 2 >= maxAttempts

LastAttempt(att) == att + 1 >= maxAttempts

\* a retry that keeps the tail of the chunk instead of its head
TrimmedChunkTail(chunk) ==
    LET words == SplitWords(chunk) IN
    JoinWords(Slice(words, Len(words) - NewLength(Len(words)), Len(words)))

\* the chunk tried after an input-length failure on currentChunk
TrimmedChunk(chunk) ==
    LET words == SplitWords(chunk) IN
    JoinWords(Slice(words, 0, NewLength(Len(words))))

\* ---------------------------------------------------- indexDocuments
\* a chunks.forEach body that keeps the last MAX_ALLOWED_WORDS words
MakeDocKeepTail(chunk, idx, total, file) ==
    LET words == SplitWords(chunk) IN
    [pageContent |-> IF Len(words) > MAX_ALLOWED_WORDS
                     THEN JoinWords(Slice(words, Len(words) - MAX_ALLOWED_WORDS,
                                          Len(words)))
                     ELSE chunk,
     metadata |-> [source |-> file, chunkIndex |-> idx + 1, totalChunks |-> total]]

\* the body of chunks.forEach: trim to the hard cap, wrap in a Document
MakeDoc(chunk, idx, total, file) ==
    LET words == SplitWords(chunk) IN
    [pageContent |-> IF Len(words) > MAX_ALLOWED_WORDS
                     THEN JoinWords(Slice(words, 0, MAX_ALLOWED_WORDS))
                     ELSE chunk,
     metadata |-> [source |-> file, chunkIndex |-> idx + 1, totalChunks |-> total]]

\* the Documents of one content file
FileDocs(file, textContent) ==
    LET chunks == chunkText(textContent, CHUNK_SIZE) IN
    [j \in 1..Len(chunks) |-> MakeDoc(chunks[j], j - 1, Len(chunks), file)]

\* JSON.parse(raw).content of a file  {"content":"..."}
ParseContent(raw) == SubSeq(raw, Len(JsonOpen) + 1, Len(raw) - Len(JsonClose))

\* textContent of a content file; the empty text stands for the `continue`
\* taken on a .json file without (or with an empty) "content"
ReadContent(file) ==
    IF file.kind = "json" THEN ParseContent(file.raw) ELSE file.raw

\* the Documents the file loop adds for file number f
LoadedDocs(f, file) == FileDocs(f, ReadContent(file))

\* what the file loop logs for a file it read: the warning of the
\* `continue` for a .json file whose "content" is missing or empty, else the
\* info lines "split into n chunk(s)" and "Processed"
FileLogged(f, file) ==
    IF file.kind = "json" /\ ParseContent(file.raw) = <<>>
    THEN [file |-> f, level |-> "warn", chunks |-> 0]
    ELSE [file |-> f, level |-> "info", chunks |-> Len(LoadedDocs(f, file))]

\* the file loop took file fi+1 and read it
LoadFile ==
    /\ iPc = "load"
    /\ fi < Len(files)
    /\ docs' = docs \o LoadedDocs(fi + 1, files[fi + 1])
    /\ fileLog' = Append(fileLog, FileLogged(fi + 1, files[fi + 1]))
    /\ fi' = fi + 1
    /\ UNCHANGED <<files, embedDims, iPc, processedChunks, attempt, currentChunk,
                   tried, log, thrown, validEmbeddings, validDocs, index, indexData,
                   diskIndex, diskMapping>>
    /\ UNCHANGED <<chunkVars, retrVars, ctxVars, repVars, procVars, appVars>>

\* fs.readFile or JSON.parse of file fi+1 failed: caught and logged by the
\* file loop
LoadFileError ==
    /\ iPc = "load"
    /\ fi < Len(files)
    /\ fileLog' = Append(fileLog, [file |-> fi + 1, level |-> "error", chunks |-> 0])
    /\ fi' = fi + 1
    /\ UNCHANGED <<files, embedDims, iPc, docs, processedChunks, attempt,
                   currentChunk, tried, log, thrown, validEmbeddings, validDocs, index,
                   indexData, diskIndex, diskMapping>>
    /\ UNCHANGED <<chunkVars, retrVars, ctxVars, repVars, procVars, appVars>>

\* after the file loop: exit(0) without chunks, else the embedding loop starts
FinishLoad ==
    /\ iPc = "load"
    /\ fi = Len(files)
    /\ IF docs = <<>>
       THEN iPc' = "exit0" /\ UNCHANGED currentChunk
       ELSE iPc' = "embed" /\ currentChunk' = docs[1].pageContent
    /\ UNCHANGED <<fileLog, files, embedDims, fi, docs, processedChunks, attempt, tried,
                   log, thrown, validEmbeddings, validDocs, index, indexData, diskIndex,
                   diskMapping>>
    /\ UNCHANGED <<chunkVars, retrVars, ctxVars, repVars, procVars, appVars>>

\* the embedding loop moves on: safeEmbedChunk is entered for the next chunk
NextDoc(entry) ==
    /\ processedChunks' = processedChunks + 1
    /\ attempt' = 0
    /\ tried' = <<>>
    /\ currentChunk' = IF processedChunks + 1 < Len(docs)
                       THEN docs[processedChunks + 2].pageContent ELSE <<>>
    /\ log' = Append(log, entry)

\* what the embedding loop keeps of a successful safeEmbedChunk result
KeptDoc(doc, result) == doc

\* embedDocuments answered: the chunk is kept
EmbedOk ==
    /\ iPc = "embed"
    /\ processedChunks < Len(docs)
    /\ \E dim \in embedDims :
         LET result == [chunk |-> currentChunk,
                        embedding |-> EmbedVector(currentChunk, dim)] IN
         /\ validEmbeddings' = Append(validEmbeddings, result.embedding)
         /\ validDocs' = Append(validDocs, KeptDoc(docs[processedChunks + 1], result))
         /\ NextDoc([outcome |-> "ok", tried |-> Append(tried, currentChunk),
                     chunk |-> result.chunk])
    /\ UNCHANGED <<fileLog, files, embedDims, iPc, fi, docs, thrown, index, indexData,
                   diskIndex, diskMapping>>
    /\ UNCHANGED <<chunkVars, retrVars, ctxVars, repVars, procVars, appVars>>

\* embedDocuments failed with "input length exceeds maximum context length"
EmbedTooLong ==
    /\ iPc = "embed"
    /\ processedChunks < Len(docs)
    /\ IF ~LastAttempt(attempt)
       THEN /\ attempt' = attempt + 1
            /\ currentChunk' = TrimmedChunk(currentChunk)
            /\ tried' = Append(tried, currentChunk)
            /\ UNCHANGED <<processedChunks, log>>
       ELSE NextDoc([outcome |-> "skipped", tried |-> Append(tried, currentChunk),
                     chunk |-> <<>>])
    /\ UNCHANGED <<fileLog, files, embedDims, iPc, fi, docs, thrown, validEmbeddings,
                   validDocs, index, indexData, diskIndex, diskMapping>>
    /\ UNCHANGED <<chunkVars, retrVars, ctxVars, repVars, procVars, appVars>>

\* a safeEmbedChunk that counts any other error as one more failed attempt
EmbedOtherErrorRetried ==
    /\ iPc = "embed"
    /\ processedChunks < Len(docs)
    /\ \E e \in {"timeout", "other"} : thrown' = e
    /\ IF ~LastAttempt(attempt)
       THEN /\ attempt' = attempt + 1
            /\ tried' = Append(tried, currentChunk)
            /\ UNCHANGED <<processedChunks, log, currentChunk>>
       ELSE NextDoc([outcome |-> "skipped", tried |-> Append(tried, currentChunk),
                     chunk |-> <<>>])
    /\ UNCHANGED <<fileLog, files, embedDims, iPc, fi, docs, validEmbeddings,
                   validDocs, index, indexData, diskIndex, diskMapping>>
    /\ UNCHANGED <<chunkVars, retrVars, ctxVars, repVars, procVars, appVars>>

\* embedDocuments failed with any other error (a timeout, a refused
\* connection): safeEmbedChunk rethrows, indexDocuments rejects, exit(1)
EmbedOtherError ==
    /\ iPc = "embed"
    /\ processedChunks < Len(docs)
    /\ iPc' = "exit1"
    /\ \E e \in {"timeout", "other"} : thrown' = e
    /\ tried' = Append(tried, currentChunk)
    /\ UNCHANGED <<fileLog, files, embedDims, fi, docs, processedChunks, attempt,
                   currentChunk, log, validEmbeddings, validDocs, index,
                   indexData, diskIndex, diskMapping>>
    /\ UNCHANGED <<chunkVars, retrVars, ctxVars, repVars, procVars, appVars>>

\* after the embedding loop: exit(1) without vectors, else the index is built
BuildIndex ==
    /\ iPc = "embed"
    /\ processedChunks = Len(docs)
    /\ IF validEmbeddings = <<>>
       THEN iPc' = "exit1" /\ UNCHANGED <<index, indexData, thrown>>
       ELSE LET finalDim == Len(validEmbeddings[1])
                nbDocs == Len(validEmbeddings)
                flatArray == Flat(validEmbeddings)
            IN  IF AddThrows(IndexFlatL2(finalDim), flatArray)
                THEN iPc' = "exit1" /\ thrown' = "add" /\ UNCHANGED <<index, indexData>>
                ELSE /\ index' = IndexAdd(IndexFlatL2(finalDim), flatArray)
                     /\ indexData' = [dim |-> finalDim, nbDocs |-> nbDocs,
                                      flatArray |-> flatArray]
                     /\ iPc' = "writeIndex"
                     /\ UNCHANGED thrown
    /\ UNCHANGED <<fileLog, files, embedDims, fi, docs, processedChunks, attempt,
                   currentChunk, tried, log, validEmbeddings, validDocs,
                   diskIndex, diskMapping>>
    /\ UNCHANGED <<chunkVars, retrVars, ctxVars, repVars, procVars, appVars>>

\* fs.writeFile(faiss_index.json)
WriteIndex ==
    /\ iPc = "writeIndex"
    /\ diskIndex' = StringifyIndexData(indexData)
    /\ iPc' = "writeMapping"
    /\ UNCHANGED <<fileLog, files, embedDims, fi, docs, processedChunks, attempt,
                   currentChunk, tried, log, thrown, validEmbeddings, validDocs,
                   index, indexData, diskMapping>>
    /\ UNCHANGED <<chunkVars, retrVars, ctxVars, repVars, procVars, appVars>>

\* a Document Map that lists every chunk loaded, embedded or not
DocMappingOfAllDocs(vdocs) == [j \in 1..Len(docs) |-> docs[j].metadata]

\* the Document Map of the run
DocMapping(vdocs) == [j \in 1..Len(vdocs) |-> vdocs[j].metadata]

\* fs.writeFile(docMapping.json)
WriteMapping ==
    /\ iPc = "writeMapping"
    /\ diskMapping' = StringifyMapping(DocMapping(validDocs))
    /\ iPc' = "done"
    /\ UNCHANGED <<fileLog, files, embedDims, fi, docs, processedChunks, attempt,
                   currentChunk, tried, log, thrown, validEmbeddings, validDocs,
                   index, indexData, diskIndex>>
    /\ UNCHANGED <<chunkVars, retrVars, ctxVars, repVars, procVars, appVars>>

NextIndex ==
    \/ LoadFile
    \/ LoadFileError
    \/ FinishLoad
    \/ EmbedOk
    \/ EmbedTooLong
    \/ EmbedOtherError
    \/ BuildIndex
    \/ WriteIndex
    \/ WriteMapping

\* the process is killed (a signal, a crash of the host) while indexDocuments
\* is at one of its awaits
Kill ==
    /\ iPc \in {"load", "embed", "writeIndex", "writeMapping"}
    /\ iPc' = "killed"
    /\ UNCHANGED <<fileLog, files, embedDims, fi, docs, processedChunks, attempt,
                   currentChunk, tried, log, thrown, validEmbeddings, validDocs,
                   index, indexData, diskIndex, diskMapping>>
    /\ UNCHANGED <<chunkVars, retrVars, ctxVars, repVars, procVars, appVars>>

NextIndexOrKill ==
    \/ NextIndex
    \/ Kill

\* ------------------------------------------- generateQA, generateBlogPosts
\* getChunkContent(dataDir, meta, chunkSize): re-read the file, re-split it
getChunkContent(dirFiles, meta, chunkSize) ==
    LET words == SplitWords(dirFiles[meta.source].raw)
        start == (meta.chunkIndex - 1) * chunkSize
    IN  JoinWords(Slice(words, start, start + chunkSize))

\* "[Content not available]"
NotAvailable == <<WS, WS>>

\* docMapping[idx] of JavaScript: undefined outside the array
Undefined == [undefined |-> TRUE]
Entry(docMapping, idx) ==
    IF idx + 1 \in 1..Len(docMapping) THEN docMapping[idx + 1] ELSE Undefined

\* a range test that lets the ordinal docMapping.length through
InRangeOffByOne(idx, n) == ~(idx < 0 \/ idx > n)

\* the negation of  idx < 0 || idx >= docMapping.length
InRange(idx, n) == ~(idx < 0 \/ idx >= n)

docMapping == ParseMapping(rMappingJson)

\* new faiss.IndexFlatL2(dim); index.add(flatArray)
Rebuilt(snap) == IndexAdd(IndexFlatL2(snap.dim), snap.flatArray)
RebuildThrows(snap) == AddThrows(IndexFlatL2(snap.dim), snap.flatArray)

rUnchangedInputs == UNCHANGED <<rVariant, rFiles, rIndexJson, rMappingJson, rQuestions>>

\* generateQA: both files are read and parsed, or exit(1)
QALoad ==
    /\ rVariant = "qa" /\ rPc = "load"
    /\ IF rIndexJson = <<>> \/ rMappingJson = <<>>
       THEN rPc' = "exit1" /\ rWhy' = "load"
       ELSE rPc' = "start" /\ UNCHANGED rWhy
    /\ rUnchangedInputs
    /\ UNCHANGED <<rQ, queryEmbedding, labels, distances, rI, contextTexts,
                   rSources, rWarned, rPosts>>
    /\ UNCHANGED <<chunkVars, indexVars, ctxVars, repVars, procVars, appVars>>

\* generateQA: embedQuery(query) answers
QAEmbedQuery ==
    /\ rVariant = "qa" /\ rPc = "start"
    /\ queryEmbedding' = EmbedVector(rQuestions[1], Dim)
    /\ rPc' = "search"
    /\ rUnchangedInputs
    /\ UNCHANGED <<rQ, labels, distances, rI, contextTexts, rSources, rWarned,
                   rPosts, rWhy>>
    /\ UNCHANGED <<chunkVars, indexVars, ctxVars, repVars, procVars, appVars>>

\* generateQA: embedQuery(query) throws; generateQA rejects, exit(1)
QAEmbedQueryFails ==
    /\ rVariant = "qa" /\ rPc = "start"
    /\ rPc' = "exit1" /\ rWhy' = "embed"
    /\ rUnchangedInputs
    /\ UNCHANGED <<rQ, queryEmbedding, labels, distances, rI, contextTexts,
                   rSources, rWarned, rPosts>>
    /\ UNCHANGED <<chunkVars, indexVars, ctxVars, repVars, procVars, appVars>>

\* generateQA: the index is rebuilt from the snapshot and searched
QASearch ==
    /\ rVariant = "qa" /\ rPc = "search"
    /\ LET snap == ParseIndexData(rIndexJson) IN
       IF RebuildThrows(snap) \/ SearchThrows(Rebuilt(snap), queryEmbedding, K)
       THEN /\ rPc' = "exit1" /\ rWhy' = "search"
            /\ UNCHANGED <<labels, distances>>
       ELSE /\ labels' = Search(Rebuilt(snap), queryEmbedding, K).labels
            /\ distances' = Search(Rebuilt(snap), queryEmbedding, K).distances
            /\ rPc' = "resolve"
            /\ UNCHANGED rWhy
    /\ rUnchangedInputs
    /\ UNCHANGED <<rQ, queryEmbedding, rI, contextTexts, rSources, rWarned, rPosts>>
    /\ UNCHANGED <<chunkVars, indexVars, ctxVars, repVars, procVars, appVars>>

\* generateQA: one pass of the loop over labels
QAResolve ==
    /\ rVariant = "qa" /\ rPc = "resolve"
    /\ rI < Len(labels)
    /\ LET idx == labels[rI + 1]
           meta == Entry(docMapping, idx)
       IN  IF ~InRange(idx, Len(docMapping))
           THEN /\ rWarned' = Append(rWarned, idx)
                /\ rI' = rI + 1
                /\ UNCHANGED <<contextTexts, rPc, rWhy>>
           ELSE IF meta = Undefined
           THEN /\ rPc' = "exit1" /\ rWhy' = "typeerror"
                /\ UNCHANGED <<contextTexts, rWarned, rI>>
           ELSE /\ \E readable \in BOOLEAN :
                     contextTexts' = Append(contextTexts,
                        [source |-> meta.source, chunk |-> meta.chunkIndex,
                         text |-> IF readable
                                  THEN getChunkContent(rFiles, meta, CONFIG_chunkSize)
                                  ELSE NotAvailable])
                /\ rI' = rI + 1
                /\ UNCHANGED <<rWarned, rPc, rWhy>>
    /\ rUnchangedInputs
    /\ UNCHANGED <<rQ, queryEmbedding, labels, distances, rSources, rPosts>>
    /\ UNCHANGED <<chunkVars, indexVars, ctxVars, repVars, procVars, appVars>>

\* generateQA: after the loop; without context exit(1), else the answer
QAFinish ==
    /\ rVariant = "qa" /\ rPc = "resolve"
    /\ rI = Len(labels)
    /\ IF contextTexts = <<>>
       THEN rPc' = "exit1" /\ rWhy' = "nocontext"
       ELSE rPc' = "done" /\ UNCHANGED rWhy
    /\ rUnchangedInputs
    /\ UNCHANGED <<rQ, queryEmbedding, labels, distances, rI, contextTexts,
                   rSources, rWarned, rPosts>>
    /\ UNCHANGED <<chunkVars, indexVars, ctxVars, repVars, procVars, appVars>>

\* generateBlogPosts: the files are read, the index is rebuilt, or exit(1)
BlogLoad ==
    /\ rVariant = "blog" /\ rPc = "load"
    /\ IF rIndexJson = <<>> \/ rMappingJson = <<>>
       THEN rPc' = "exit1" /\ rWhy' = "load"
       ELSE IF RebuildThrows(ParseIndexData(rIndexJson))
       THEN rPc' = "exit1" /\ rWhy' = "add"
       ELSE rPc' = "start" /\ UNCHANGED rWhy
    /\ rUnchangedInputs
    /\ UNCHANGED <<rQ, queryEmbedding, labels, distances, rI, contextTexts,
                   rSources, rWarned, rPosts>>
    /\ UNCHANGED <<chunkVars, indexVars, ctxVars, repVars, procVars, appVars>>

\* generateBlogPosts: `continue`
NextQuestion ==
    /\ rQ' = rQ + 1
    /\ rPc' = "start"
    /\ labels' = <<>>
    /\ distances' = <<>>
    /\ rSources' = [sources |-> <<>>, mappingReferences |-> <<>>]
    /\ rWarned' = <<>>

\* generateBlogPosts: embedQuery(question) answers
BlogEmbedQuery ==
    /\ rVariant = "blog" /\ rPc = "start"
    /\ rQ < Len(rQuestions)
    /\ queryEmbedding' = EmbedVector(rQuestions[rQ + 1], Dim)
    /\ rPc' = "search"
    /\ rUnchangedInputs
    /\ UNCHANGED <<rQ, labels, distances, rI, contextTexts, rSources, rWarned,
                   rPosts, rWhy>>
    /\ UNCHANGED <<chunkVars, indexVars, ctxVars, repVars, procVars, appVars>>

\* generateBlogPosts: embedQuery(question) throws; the question is given up
BlogEmbedQueryFails ==
    /\ rVariant = "blog" /\ rPc = "start"
    /\ rQ < Len(rQuestions)
    /\ NextQuestion
    /\ rUnchangedInputs
    /\ UNCHANGED <<queryEmbedding, rI, contextTexts, rPosts, rWhy>>
    /\ UNCHANGED <<chunkVars, indexVars, ctxVars, repVars, procVars, appVars>>

\* generateBlogPosts: index.search; a throw gives the question up
BlogSearch ==
    /\ rVariant = "blog" /\ rPc = "search"
    /\ LET ix == Rebuilt(ParseIndexData(rIndexJson)) IN
       IF SearchThrows(ix, queryEmbedding, K)
       THEN NextQuestion
       ELSE /\ labels' = Search(ix, queryEmbedding, K).labels
            /\ distances' = Search(ix, queryEmbedding, K).distances
            /\ rPc' = "resolve"
            /\ UNCHANGED <<rQ, rSources, rWarned>>
    /\ rUnchangedInputs
    /\ UNCHANGED <<queryEmbedding, rI, contextTexts, rPosts, rWhy>>
    /\ UNCHANGED <<chunkVars, indexVars, ctxVars, repVars, procVars, appVars>>

\* indices.forEach(...) of generateBlogPosts, from result i on
RECURSIVE ForEachIndex(_, _, _)
ForEachIndex(indices, i, acc) ==
    IF i > Len(indices) THEN acc
    ELSE LET idx == indices[i]
             meta == Entry(docMapping, idx)
         IN  IF ~InRange(idx, Len(docMapping))
             THEN ForEachIndex(indices, i + 1,
                               [acc EXCEPT !.warned = Append(@, idx)])
             ELSE IF meta = Undefined
             THEN ForEachIndex(indices, i + 1, acc)
             ELSE ForEachIndex(indices, i + 1,
                               [acc EXCEPT !.sources = Append(@, <<meta.source,
                                               meta.chunkIndex, meta.totalChunks>>),
                                           !.mappingReferences = Append(@, meta)])

\* generateBlogPosts: the search result is resolved against docMapping
BlogResolve ==
    /\ rVariant = "blog" /\ rPc = "resolve"
    /\ LET r == ForEachIndex(labels, 1, [sources |-> <<>>, mappingReferences |-> <<>>,
                                         warned |-> <<>>])
       IN  /\ rSources' = [sources |-> r.sources,
                           mappingReferences |-> r.mappingReferences]
           /\ rWarned' = r.warned
    /\ rPc' = "generate"
    /\ rUnchangedInputs
    /\ UNCHANGED <<rQ, queryEmbedding, labels, distances, rI, contextTexts,
                   rPosts, rWhy>>
    /\ UNCHANGED <<chunkVars, indexVars, ctxVars, repVars, procVars, appVars>>

\* generateBlogPosts: the LLM answers and the post is written
BlogWritePost ==
    /\ rVariant = "blog" /\ rPc = "generate"
    /\ rPosts' = Append(rPosts, [question |-> rQ + 1, sources |-> rSources.sources,
                                 references |-> rSources.mappingReferences])
    /\ NextQuestion
    /\ rUnchangedInputs
    /\ UNCHANGED <<queryEmbedding, rI, contextTexts, rWhy>>
    /\ UNCHANGED <<chunkVars, indexVars, ctxVars, repVars, procVars, appVars>>

\* generateBlogPosts: the LLM call or the parse of its answer fails
BlogPostFails ==
    /\ rVariant = "blog" /\ rPc = "generate"
    /\ NextQuestion
    /\ rUnchangedInputs
    /\ UNCHANGED <<queryEmbedding, rI, contextTexts, rPosts, rWhy>>
    /\ UNCHANGED <<chunkVars, indexVars, ctxVars, repVars, procVars, appVars>>

\* generateBlogPosts: every question was taken
BlogDone ==
    /\ rVariant = "blog" /\ rPc = "start"
    /\ rQ = Len(rQuestions)
    /\ rPc' = "done"
    /\ rUnchangedInputs
    /\ UNCHANGED <<rQ, queryEmbedding, labels, distances, rI, contextTexts,
                   rSources, rWarned, rPosts, rWhy>>
    /\ UNCHANGED <<chunkVars, indexVars, ctxVars, repVars, procVars, appVars>>

NextRetrieve ==
    \/ QALoad
    \/ QAEmbedQuery
    \/ QAEmbedQueryFails
    \/ QASearch
    \/ QAResolve
    \/ QAFinish
    \/ BlogLoad
    \/ BlogEmbedQuery
    \/ BlogEmbedQueryFails
    \/ BlogSearch
    \/ BlogResolve
    \/ BlogWritePost
    \/ BlogPostFails
    \/ BlogDone

\* ------------------------------------- generateContext: the point store
\* A label is a sequence of character codes.  crypto's SHA-1 digest is stood
\* for by 40 hex digits that tell any two labels of the model apart: the
\* bytes of the first 19 characters (0xFF where the label has ended) and the
\* label's length.
PadByte == 255
Dash == 16
DigestBytes == 19

Sha1Hex(content) ==
    [i \in 1..(2 * DigestBytes + 2) |->
        LET c == (i + 1) \div 2
            byte == IF c > DigestBytes THEN Len(content)
                    ELSE IF c <= Len(content) THEN content[c] ELSE PadByte
        IN  IF i % 2 = 1 THEN (byte \div 16) % 16 ELSE byte % 16]

\* hash.substring(a, b)
Substring(hash, a, b) == SubSeq(hash, a + 1, Min(b, Len(hash)))

\* an id made of the first group of the digest alone
generateIdFirstGroup(content) ==
    LET hash == Sha1Hex(content) IN
    Substring(hash, 0, 8) \o <<Dash>> \o Substring(hash, 0, 4) \o <<Dash>>
      \o Substring(hash, 0, 4) \o <<Dash>> \o Substring(hash, 0, 4) \o <<Dash>>
      \o Substring(hash, 0, 8) \o Substring(hash, 0, 4)

\* generateId(content): the digest's first 32 digits as 8-4-4-4-12
generateId(content) ==
    LET hash == Sha1Hex(content) IN
    Substring(hash, 0, 8) \o <<Dash>> \o Substring(hash, 8, 12) \o <<Dash>>
      \o Substring(hash, 12, 16) \o <<Dash>> \o Substring(hash, 16, 20) \o <<Dash>>
      \o Substring(hash, 20, 32)

\* payload?.key of a point payload: the empty array stands for undefined
PayloadGet(payload, key) == IF key \in DOMAIN payload THEN payload[key] ELSE <<>>

\* null of getExistingPoint
NoPoint == [found |-> FALSE, payload |-> [field |-> <<>>]]

\* getExistingPoint: client.retrieve(ids: [id], with_payload, no vector)
getExistingPoint(store, id) ==
    IF id \in DOMAIN store
    THEN [found |-> TRUE, payload |-> store[id].payload]
    ELSE NoPoint

\* a payload update that also clears the stored vector
updatePayloadAndVector(store, id, payload) ==
    [store EXCEPT ![id] = [vector |-> <<>>, payload |-> payload]]

\* updatePayloadOnly: client.setPayload sets the given keys of the point
updatePayloadOnly(store, id, payload) ==
    [store EXCEPT ![id].payload =
        [k \in DOMAIN @ \cup DOMAIN payload |->
            IF k \in DOMAIN payload THEN payload[k] ELSE @[k]]]

\* client.upsert of one point: the point is created or replaced
Upsert(store, id, vector, payload) ==
    [i \in DOMAIN store \cup {id} |->
        IF i = id THEN [vector |-> vector, payload |-> payload] ELSE store[i]]

\* a merge that keeps the new URL alone
MergeUrlsKeepNew(existingUrls, url) == <<url>>

\* Array.from(new Set([...existingUrls, url]))
MergeUrls(existingUrls, url) ==
    IF \E i \in 1..Len(existingUrls) : existingUrls[i] = url
    THEN existingUrls ELSE Append(existingUrls, url)

\* [...existingData, { text, url }]
MergeData(existingData, text, url) == Append(existingData, [text |-> text, url |-> url])

\* text.length < 20 of the content filter
MinTextLen == 20

\* the payload written for a label that has a point
MergedPayload(variant, existing, label, text, url) ==
    IF variant = "urls"
    THEN [field |-> label, urls |-> MergeUrls(PayloadGet(existing.payload, "urls"), url)]
    ELSE [field |-> label, data |-> MergeData(PayloadGet(existing.payload, "data"), text, url)]

\* the payload written with a new point
NewPayload(variant, label, text, url) ==
    IF variant = "urls"
    THEN [field |-> label, urls |-> <<url>>]
    ELSE [field |-> label, data |-> <<[text |-> text, url |-> url]>>]

\* the text handed to getEmbedding for a new point
EmbeddedText(variant, label, text) == IF variant = "urls" THEN label ELSE text

Runs == {1, 2}

gPage(r) == gList[r][gP[r] + 1]
gTerm(r) == gItems[r][gT[r] + 1]
gOthersIdle(r) == \A o \in Runs \ {r} : gPc[o] \in {"idle", "done", "failed"}

gUnchangedDb == UNCHANGED <<gVariant, gConcurrent, gPages, gForce>>

\* POST /jobs/run -> runJob -> run(payload): the rows are selected
JobStart(r) ==
    /\ gPc[r] = "idle"
    /\ gConcurrent \/ gOthersIdle(r)
    /\ LET rows == IF gVariant = "urls" \/ gForce[r]
                   THEN gPages
                   ELSE SelectSeq(gPages, LAMBDA row : row.url \notin gSaved)
       IN  /\ gList' = [gList EXCEPT ![r] = rows]
           /\ gPc' = [gPc EXCEPT ![r] = IF rows = <<>> THEN "done" ELSE "page"]
    /\ gUnchangedDb
    /\ UNCHANGED <<gSaved, gStore, gP, gItems, gT, gExisting, gEmbedCalls,
                   gStale, gFailures>>
    /\ UNCHANGED <<chunkVars, indexVars, retrVars, repVars, procVars, appVars>>

\* the row loop is over: "Job completed", pool.end()
JobFinish(r) ==
    /\ gPc[r] = "page"
    /\ gP[r] = Len(gList[r])
    /\ gPc' = [gPc EXCEPT ![r] = "done"]
    /\ gUnchangedDb
    /\ UNCHANGED <<gSaved, gStore, gList, gP, gItems, gT, gExisting, gEmbedCalls, gStale, gFailures>>
    /\ UNCHANGED <<chunkVars, indexVars, retrVars, repVars, procVars, appVars>>

\* a row without page_data.text is skipped
PageSkip(r) ==
    /\ gPc[r] = "page"
    /\ gP[r] < Len(gList[r])
    /\ gPage(r).text = <<>>
    /\ gP' = [gP EXCEPT ![r] = @ + 1]
    /\ gUnchangedDb
    /\ UNCHANGED <<gSaved, gStore, gPc, gList, gItems, gT, gExisting, gEmbedCalls, gStale, gFailures>>
    /\ UNCHANGED <<chunkVars, indexVars, retrVars, repVars, procVars, appVars>>

\* the LLM call fails or answers nothing: the row is given up
PageLLMFails(r) ==
    /\ gPc[r] = "page"
    /\ gP[r] < Len(gList[r])
    /\ gPage(r).text # <<>>
    /\ Len(gFailures) < MaxFailures
    /\ gP' = [gP EXCEPT ![r] = @ + 1]
    /\ gFailures' = Append(gFailures, "llm")
    /\ gUnchangedDb
    /\ UNCHANGED <<gSaved, gStore, gPc, gList, gItems, gT, gExisting, gEmbedCalls, gStale>>
    /\ UNCHANGED <<chunkVars, indexVars, retrVars, repVars, procVars, appVars>>

\* the LLM answers, the answer is parsed and saved by updatePageDataField
PageSave(r) ==
    /\ gPc[r] = "page"
    /\ gP[r] < Len(gList[r])
    /\ gPage(r).text # <<>>
    /\ gSaved' = gSaved \cup {gPage(r).url}
    /\ gItems' = [gItems EXCEPT ![r] = gPage(r).items]
    /\ gT' = [gT EXCEPT ![r] = 0]
    /\ gPc' = [gPc EXCEPT ![r] = "term"]
    /\ gUnchangedDb
    /\ UNCHANGED <<gStore, gList, gP, gExisting, gEmbedCalls, gStale, gFailures>>
    /\ UNCHANGED <<chunkVars, indexVars, retrVars, repVars, procVars, appVars>>

\* the term loop of the row is over
PageDone(r) ==
    /\ gPc[r] = "term"
    /\ gT[r] = Len(gItems[r])
    /\ gP' = [gP EXCEPT ![r] = @ + 1]
    /\ gPc' = [gPc EXCEPT ![r] = "page"]
    /\ gUnchangedDb
    /\ UNCHANGED <<gSaved, gStore, gList, gItems, gT, gExisting, gEmbedCalls,
                   gStale, gFailures>>
    /\ UNCHANGED <<chunkVars, indexVars, retrVars, repVars, procVars, appVars>>

\* if (!interest || text.length < 20) continue   (part_014 only)
Filtered(variant, label, text) ==
    variant = "data" /\ (label = <<>> \/ Len(text) < MinTextLen)

TermSkip(r) ==
    /\ gPc[r] = "term"
    /\ gT[r] < Len(gItems[r])
    /\ Filtered(gVariant, gTerm(r), gPage(r).text)
    /\ gT' = [gT EXCEPT ![r] = @ + 1]
    /\ gUnchangedDb
    /\ UNCHANGED <<gSaved, gStore, gPc, gList, gP, gItems, gExisting, gEmbedCalls, gStale, gFailures>>
    /\ UNCHANGED <<chunkVars, indexVars, retrVars, repVars, procVars, appVars>>

\* const existingPoint = await getExistingPoint(client, collection, id)
TermRetrieve(r) ==
    /\ gPc[r] = "term"
    /\ gT[r] < Len(gItems[r])
    /\ ~Filtered(gVariant, gTerm(r), gPage(r).text)
    /\ LET existingPoint == getExistingPoint(gStore, generateId(gTerm(r))) IN
       /\ gExisting' = [gExisting EXCEPT ![r] = existingPoint]
       /\ gPc' = [gPc EXCEPT ![r] = IF existingPoint.found THEN "merge" ELSE "embed"]
    /\ gUnchangedDb
    /\ UNCHANGED <<gSaved, gStore, gList, gP, gItems, gT, gEmbedCalls,
                   gStale, gFailures>>
    /\ UNCHANGED <<chunkVars, indexVars, retrVars, repVars, procVars, appVars>>

\* what the run read is no longer what the store holds for the id
StaleRead(r, id) == getExistingPoint(gStore, id) # gExisting[r]

\* await updatePayloadOnly(client, collection, id, { [field]: term, urls })
TermMerge(r) ==
    /\ gPc[r] = "merge"
    /\ LET id == generateId(gTerm(r)) IN
       /\ gStore' = updatePayloadOnly(gStore, id,
                        MergedPayload(gVariant, gExisting[r], gTerm(r),
                                      gPage(r).text, gPage(r).url))
       /\ gStale' = IF StaleRead(r, id) THEN gStale \cup {<<id, "merge">>} ELSE gStale
    /\ gT' = [gT EXCEPT ![r] = @ + 1]
    /\ gPc' = [gPc EXCEPT ![r] = "term"]
    /\ gUnchangedDb
    /\ gExisting' = [gExisting EXCEPT ![r] = NoPoint]
    /\ UNCHANGED <<gSaved, gList, gP, gItems, gEmbedCalls, gFailures>>
    /\ UNCHANGED <<chunkVars, indexVars, retrVars, repVars, procVars, appVars>>

\* const embedding = await getEmbedding(...) answers a vector, and
\* await qdrantClient.upsert(collection, { points: [{ id, vector, payload }] })
TermUpsert(r) ==
    /\ gPc[r] = "embed"
    /\ LET id == generateId(gTerm(r))
           embedding == EmbedVector(EmbeddedText(gVariant, gTerm(r), gPage(r).text), Dim)
       IN  /\ gStore' = Upsert(gStore, id, embedding,
                               NewPayload(gVariant, gTerm(r), gPage(r).text, gPage(r).url))
           /\ gStale' = IF StaleRead(r, id) THEN gStale \cup {<<id, "create">>} ELSE gStale
    /\ gEmbedCalls' = gEmbedCalls + 1
    /\ gT' = [gT EXCEPT ![r] = @ + 1]
    /\ gPc' = [gPc EXCEPT ![r] = "term"]
    /\ gUnchangedDb
    /\ gExisting' = [gExisting EXCEPT ![r] = NoPoint]
    /\ UNCHANGED <<gSaved, gList, gP, gItems, gFailures>>
    /\ UNCHANGED <<chunkVars, indexVars, retrVars, repVars, procVars, appVars>>

\* getEmbedding answers []: the term is skipped
TermEmbedFails(r) ==
    /\ gPc[r] = "embed"
    /\ Len(gFailures) < MaxFailures
    /\ gEmbedCalls' = gEmbedCalls + 1
    /\ gFailures' = Append(gFailures, "embed")
    /\ gT' = [gT EXCEPT ![r] = @ + 1]
    /\ gPc' = [gPc EXCEPT ![r] = "term"]
    /\ gUnchangedDb
    /\ gExisting' = [gExisting EXCEPT ![r] = NoPoint]
    /\ UNCHANGED <<gSaved, gStore, gList, gP, gItems, gStale>>
    /\ UNCHANGED <<chunkVars, indexVars, retrVars, repVars, procVars, appVars>>

\* a Qdrant call (retrieve, setPayload, upsert) throws: generateContext.ts
\* catches it per row and takes the next row; in part_014 nothing catches it
\* and run() rejects
StoreThrows(r) ==
    /\ \/ gPc[r] \in {"merge", "embed"}
       \/ /\ gPc[r] = "term"
          /\ gT[r] < Len(gItems[r])
          /\ ~Filtered(gVariant, gTerm(r), gPage(r).text)
    /\ Len(gFailures) < MaxFailures
    /\ gFailures' = Append(gFailures, "store")
    /\ IF gVariant = "urls"
       THEN /\ gP' = [gP EXCEPT ![r] = @ + 1]
            /\ gPc' = [gPc EXCEPT ![r] = "page"]
       ELSE /\ gPc' = [gPc EXCEPT ![r] = "failed"]
            /\ UNCHANGED gP
    /\ gUnchangedDb
    /\ gExisting' = [gExisting EXCEPT ![r] = NoPoint]
    /\ UNCHANGED <<gSaved, gStore, gList, gItems, gT, gEmbedCalls, gStale>>
    /\ UNCHANGED <<chunkVars, indexVars, retrVars, repVars, procVars, appVars>>

NextContext ==
    \E r \in Runs :
        \/ JobStart(r)
        \/ JobFinish(r)
        \/ PageSkip(r)
        \/ PageLLMFails(r)
        \/ PageSave(r)
        \/ PageDone(r)
        \/ TermSkip(r)
        \/ TermRetrieve(r)
        \/ TermMerge(r)
        \/ TermEmbedFails(r)
        \/ TermUpsert(r)
        \/ StoreThrows(r)

\* ---------------------------------------------- generateReport: run
\* A JavaScript object with string keys is the sequence of its [k, v]
\* entries in property order: the keys that are array indices ("0", "7",
\* "10") in ascending numeric order, then the other keys in insertion order.
IsDigit(c) == c \in 48..57

\* a.localeCompare(b) < 0, for labels of lower-case letters and digits
RECURSIVE LexLess(_, _, _)
LexLess(a, b, i) ==
    IF i > Len(b) THEN FALSE
    ELSE IF i > Len(a) THEN TRUE
    ELSE IF a[i] # b[i] THEN a[i] < b[i]
    ELSE LexLess(a, b, i + 1)

LocaleLess(a, b) == LexLess(a, b, 1)

\* "4294967295", 2^32 - 1: the first integer that is no array index
MaxIndexDigits == <<52, 50, 57, 52, 57, 54, 55, 50, 57, 53>>

\* of two canonical numeric strings, the one of the smaller number
NumLess(a, b) == Len(a) < Len(b) \/ (Len(a) = Len(b) /\ LexLess(a, b, 1))

\* a canonical numeric string below 2^32 - 1
IsArrayIndex(k) ==
    /\ k # <<>>
    /\ \A i \in 1..Len(k) : IsDigit(k[i])
    /\ Len(k) > 1 => k[1] # 48
    /\ NumLess(k, MaxIndexDigits)

ObjHas(obj, k) == \E i \in 1..Len(obj) : obj[i].k = k
ObjGet(obj, k) == obj[CHOOSE i \in 1..Len(obj) : obj[i].k = k].v
ObjKeys(obj) == [i \in 1..Len(obj) |-> obj[i].k]

\* the entries a new key k is placed after
KeysBefore(obj, k) ==
    IF IsArrayIndex(k)
    THEN {i \in 1..Len(obj) :
             IsArrayIndex(obj[i].k) /\ NumLess(obj[i].k, k)}
    ELSE 1..Len(obj)

\* an object that keeps every key in insertion order
ObjSetInsertionOrder(obj, k, v) ==
    IF ObjHas(obj, k)
    THEN [i \in 1..Len(obj) |-> IF obj[i].k = k THEN [k |-> k, v |-> v] ELSE obj[i]]
    ELSE Append(obj, [k |-> k, v |-> v])

\* obj[k] = v
ObjSet(obj, k, v) ==
    IF ObjHas(obj, k)
    THEN [i \in 1..Len(obj) |-> IF obj[i].k = k THEN [k |-> k, v |-> v] ELSE obj[i]]
    ELSE LET n == Cardinality(KeysBefore(obj, k)) IN
         SubSeq(obj, 1, n) \o <<[k |-> k, v |-> v]>> \o SubSeq(obj, n + 1, Len(obj))

RECURSIVE FromEntriesRec(_, _, _)
FromEntriesRec(entries, i, obj) ==
    IF i > Len(entries) THEN obj
    ELSE FromEntriesRec(entries, i + 1, ObjSet(obj, entries[i].k, entries[i].v))

\* Object.fromEntries(entries)
ObjectFromEntries(entries) == FromEntriesRec(entries, 1, <<>>)

\* Array.prototype.sort with a comparator that is negative exactly when
\* less[x][y]: a stable sort
SortBy(seq, less) ==
    LET Rank(i) == Cardinality({j \in 1..Len(seq) :
                        \/ less[seq[j]][seq[i]]
                        \/ (~less[seq[i]][seq[j]] /\ j < i)})
    IN  [r \in 1..Len(seq) |-> seq[CHOOSE i \in 1..Len(seq) : Rank(i) = r - 1]]

\* rawLabel.trim(), the blank being character 32
Blank == 32
Trim(s) ==
    LET nonBlank == {i \in 1..Len(s) : s[i] # Blank} IN
    IF nonBlank = {} THEN <<>>
    ELSE SubSeq(s, CHOOSE i \in nonBlank : \A j \in nonBlank : i <= j,
                   CHOOSE i \in nonBlank : \A j \in nonBlank : i >= j)

\* rawLabel.startsWith('[') || rawLabel.startsWith('{')
StartsWithBracket(s) == s # <<>> /\ s[1] \in {91, 123}

\* a similarity is the fraction n / d (0 when the union is empty)
SimLess(x, y) == x.n * y.d < y.n * x.d

SeqToSet(s) == {s[i] : i \in 1..Len(s)}

\* an overlap score: the shared pages over the pages of the first label
jaccardSimOverFirst(a, b) ==
    LET inter == Cardinality(SeqToSet(a) \cap SeqToSet(b))
        first == Cardinality(SeqToSet(a))
    IN  IF first = 0 THEN [n |-> 0, d |-> 1] ELSE [n |-> inter, d |-> first]

\* jaccardSim(a, b)
jaccardSim(a, b) ==
    LET inter == Cardinality(SeqToSet(a) \cap SeqToSet(b))
        union == Cardinality(SeqToSet(a) \cup SeqToSet(b))
    IN  IF union = 0 THEN [n |-> 0, d |-> 1] ELSE [n |-> inter, d |-> union]

\* sortLabelCounts(pairs): count descending, then label
sortLabelCounts(pairs) ==
    SortBy(pairs, [a \in SeqToSet(pairs) |-> [b \in SeqToSet(pairs) |->
                      IF b.v # a.v THEN a.v > b.v ELSE LocaleLess(a.k, b.k)]])

\* the loop over the items of page_data.interests of one row
RECURSIVE ScanItems(_, _, _, _)
ScanItems(items, i, url, acc) ==
    IF i > Len(items) THEN acc
    ELSE LET rawLabel == Trim(items[i]) IN
         IF StartsWithBracket(rawLabel) THEN ScanItems(items, i + 1, url, acc)
         ELSE ScanItems(items, i + 1, url,
                [counts |-> ObjSet(acc.counts, rawLabel,
                                   (IF ObjHas(acc.counts, rawLabel)
                                    THEN ObjGet(acc.counts, rawLabel) ELSE 0) + 1),
                 pages |-> ObjSet(acc.pages, rawLabel,
                                  Append(IF ObjHas(acc.pages, rawLabel)
                                         THEN ObjGet(acc.pages, rawLabel) ELSE <<>>, url)),
                 total |-> acc.total])

\* the loop over pageRows
RECURSIVE ScanRows(_, _, _, _)
ScanRows(rows, i, ignore, acc) ==
    IF i > Len(rows) THEN acc
    ELSE IF ignore THEN ScanRows(rows, i + 1, ignore, acc)
    ELSE ScanRows(rows, i + 1, ignore,
                  ScanItems(rows[i].interests, 1, rows[i].url,
                            [acc EXCEPT !.total = @ + Len(rows[i].interests)]))

\* the pairs (i < j) of the labels, each with its Jaccard similarity
RECURSIVE PairsFrom(_, _, _)
PairsFrom(pages, i, j) ==
    IF i > Len(pages) THEN <<>>
    ELSE IF j > Len(pages) THEN PairsFrom(pages, i + 1, i + 2)
    ELSE <<[interestA |-> pages[i].k, interestB |-> pages[j].k,
            similarity |-> jaccardSim(pages[i].v, pages[j].v)]>>
         \o PairsFrom(pages, i, j + 1)

\* getPageEmbedding(dbName, url): the embedding of the page in a sequence of
\* one element, null being the empty sequence
getPageEmbedding(dbName, url) == <<>>

RECURSIVE DotProduct(_, _, _)
DotProduct(a, b, n) == IF n = 0 THEN 0 ELSE DotProduct(a, b, n - 1) + a[n] * b[n]

\* cosineSimilarity(a, b) = dot / (sqrt(normA) * sqrt(normB)), kept as the
\* fraction sign(dot) * dot^2 / (normA * normB), which orders the pairs as
\* the similarity does
cosineSimilarity(a, b) ==
    LET dot == DotProduct(a, b, Len(a))
        normA == DotProduct(a, a, Len(a))
        normB == DotProduct(b, b, Len(a))
    IN  IF normA = 0 \/ normB = 0 THEN [n |-> 0, d |-> 1]
        ELSE [n |-> (IF dot < 0 THEN 0 - 1 ELSE 1) * dot * dot, d |-> normA * normB]

RECURSIVE VectorSum(_, _, _)
VectorSum(vectors, i, n) ==
    IF n = 0 THEN 0 ELSE VectorSum(vectors, i, n - 1) + vectors[n][i]

\* computeCentroid(vectors): the sum of the vectors and their number, whose
\* quotient is the centroid
computeCentroid(vectors) ==
    IF vectors = <<>> THEN [sum |-> <<>>, count |-> 0]
    ELSE [sum |-> [i \in 1..Len(vectors[1]) |-> VectorSum(vectors, i, Len(vectors))],
          count |-> Len(vectors)]

\* the vectors of the pages of one label: the null embeddings are left out
RECURSIVE PageVectors(_, _)
PageVectors(urls, i) ==
    IF i > Len(urls) THEN <<>>
    ELSE getPageEmbedding("db", urls[i]) \o PageVectors(urls, i + 1)

\* interestCentroids: a centroid for each label with at least one vector
RECURSIVE Centroids(_, _, _)
Centroids(pages, i, acc) ==
    IF i > Len(pages) THEN acc
    ELSE Centroids(pages, i + 1,
                   IF PageVectors(pages[i].v, 1) # <<>>
                   THEN ObjSet(acc, pages[i].k, computeCentroid(PageVectors(pages[i].v, 1)))
                   ELSE acc)

\* the pairs (i < j) of the labels that have a centroid, with the cosine
\* similarity of their centroids
RECURSIVE CentroidPairs(_, _, _)
CentroidPairs(cents, i, j) ==
    IF i > Len(cents) THEN <<>>
    ELSE IF j > Len(cents) THEN CentroidPairs(cents, i + 1, i + 2)
    ELSE (IF cents[i].v.sum = <<>> \/ cents[j].v.sum = <<>> THEN <<>>
          ELSE <<[interestA |-> cents[i].k, interestB |-> cents[j].k,
                  similarity |-> cosineSimilarity(cents[i].v.sum, cents[j].v.sum)]>>)
         \o CentroidPairs(cents, i, j + 1)

\* .slice(0, 5)
TopN == 5

\* run({ db, ignoreFields }): the report of the rows
Report(rows, ignore) ==
    LET scan == ScanRows(rows, 1, ignore, [counts |-> <<>>, pages |-> <<>>, total |-> 0])
        interestCounts == ObjectFromEntries(sortLabelCounts(scan.counts))
        topInterests == Slice(ObjKeys(interestCounts), 0, TopN)
        positive == SelectSeq(interestCounts, LAMBDA e : e.v > 0)
        underserved ==
            SortBy(positive, [a \in SeqToSet(positive) |-> [b \in SeqToSet(positive) |->
                                IF a.v # b.v THEN a.v < b.v ELSE LocaleLess(a.k, b.k)]])
        interestCentroids == Centroids(scan.pages, 1, <<>>)
        sims == IF Len(ObjKeys(interestCentroids)) > 1
                THEN CentroidPairs(interestCentroids, 1, 2)
                ELSE PairsFrom(scan.pages, 1, 2)
        sortedSimsDesc ==
            SortBy(sims, [x \in SeqToSet(sims) |-> [y \in SeqToSet(sims) |->
                            SimLess(y.similarity, x.similarity)]])
        sortedSimsAsc ==
            SortBy(sims, [x \in SeqToSet(sims) |-> [y \in SeqToSet(sims) |->
                            SimLess(x.similarity, y.similarity)]])
    IN  [pageFieldTotals |-> scan.total,
         fieldInterestCounts |-> interestCounts,
         interestToPages |-> scan.pages,
         topInterests |-> topInterests,
         underservedInterests |-> Slice(ObjKeys(underserved), 0, TopN),
         interestCentroidSims |-> Slice(sortedSimsDesc, 0, TopN),
         interestGapPairs |-> Slice(sortedSimsAsc, 0, TopN)]

\* POST /jobs/run with job generateReport
RunReport ==
    /\ repPc = "input"
    /\ repResult' = Report(repRows, repIgnore)
    /\ repPc' = "done"
    /\ UNCHANGED <<repRows, repIgnore>>
    /\ UNCHANGED <<chunkVars, indexVars, retrVars, ctxVars, procVars, appVars>>

NextReport == RunReport

\* ----------------------------------------- genericProcessor: processFiles
\* A data file is unparseable, or holds a title, a content, the result
\* field and the failed mark.  The result field is absent, a blank string,
\* or a value, marked with the number of the run that generated it (0 for
\* a value the file had before the first run).
Truthy(field) == field.set = "value"

\* the filter of processBatch that ignores force
SkipsExistingAlways(force, data) == Truthy(data.field)

\* !force && data[resultField]
SkipsExisting(force, data) == ~force /\ Truthy(data.field)

\* the condition under which the filter loop keeps a file
NeedsProcessing(force, data) ==
    /\ data.parse
    /\ ~data.failed
    /\ (force \/ ~Truthy(data.field))
    /\ data.content = "text"

\* files = await getJsonFiles(dataDir)
FileNames == DOMAIN pFiles

\* the names a data file can have
FileIds == 1..(MaxFiles + 1)

RECURSIVE FilterFiles(_, _, _)
FilterFiles(fs, force, f) ==
    IF f > Len(fs) THEN <<>>
    ELSE (IF NeedsProcessing(force, fs[f]) THEN <<f>> ELSE <<>>)
         \o FilterFiles(fs, force, f + 1)

\* validatePageData(data), when it does not throw
Validated(data) == [data EXCEPT !.title = IF @ = "blank" THEN "Untitled" ELSE @]

NoItem == [pc |-> "none", data |-> <<>>]
pInBatch == {f \in FileNames : pItems[f].pc # "none"}
pUnchangedOthers == UNCHANGED <<chunkVars, indexVars, retrVars, ctxVars, repVars, appVars>>

\* processFiles({ force, batchSize, ... }) up to the call of processInBatches
ProcessFiles(force, batchSize) ==
    /\ pPc = "idle"
    /\ pRun < MaxRuns
    /\ pRun' = pRun + 1
    /\ pForce' = force
    /\ pBatchSize' = batchSize
    /\ pStart' = pFiles
    /\ filesToProcess' = FilterFiles(pFiles, force, 1)
    /\ pI' = 0
    /\ pGen' = [f \in FileNames |-> "none"]
    /\ pPc' = "batches"
    /\ UNCHANGED <<pFiles, pItems>>
    /\ pUnchangedOthers

\* processInBatches: items.slice(i, i + batchSize) and the call of processBatch
StartBatch ==
    /\ pPc = "batches"
    /\ pInBatch = {}
    /\ pI < Len(filesToProcess)
    /\ pItems' = [f \in FileNames |->
                    IF f \in SeqToSet(Slice(filesToProcess, pI, pI + pBatchSize))
                    THEN [pc |-> "read", data |-> <<>>] ELSE NoItem]
    /\ UNCHANGED <<pFiles, pStart, pForce, pBatchSize, pRun, pPc, filesToProcess, pI, pGen>>
    /\ pUnchangedOthers

\* one item of the batch: readJSON, validatePageData and the skip test
ItemRead(f) ==
    /\ f \in FileNames
    /\ pItems[f].pc = "read"
    /\ IF ~pFiles[f].parse
       THEN /\ pItems' = [pItems EXCEPT ![f] = [pc |-> "settled", data |-> <<>>]]
            /\ UNCHANGED pFiles
       ELSE IF pFiles[f].content # "text"
       THEN /\ pFiles' = [pFiles EXCEPT ![f] = [Validated(@) EXCEPT !.failed = TRUE]]
            /\ pItems' = [pItems EXCEPT ![f] = [pc |-> "settled", data |-> <<>>]]
       ELSE IF SkipsExisting(pForce, pFiles[f])
       THEN /\ pItems' = [pItems EXCEPT ![f] = [pc |-> "settled", data |-> <<>>]]
            /\ UNCHANGED pFiles
       ELSE /\ pItems' = [pItems EXCEPT ![f] = [pc |-> "gen", data |-> Validated(pFiles[f])]]
            /\ UNCHANGED pFiles
    /\ UNCHANGED <<pStart, pForce, pBatchSize, pRun, pPc, filesToProcess, pI, pGen>>
    /\ pUnchangedOthers

\* generationFunction returns, and the write that follows
ItemGenerate(f, valid) ==
    /\ f \in FileNames
    /\ pItems[f].pc = "gen"
    /\ pFiles' = [pFiles EXCEPT ![f] =
                    IF valid THEN [pItems[f].data EXCEPT !.field = [set |-> "value", by |-> pRun]]
                    ELSE [pItems[f].data EXCEPT !.failed = TRUE]]
    /\ pGen' = [pGen EXCEPT ![f] = IF valid THEN "valid" ELSE "invalid"]
    /\ pItems' = [pItems EXCEPT ![f] = [pc |-> "settled", data |-> <<>>]]
    /\ UNCHANGED <<pStart, pForce, pBatchSize, pRun, pPc, filesToProcess, pI>>
    /\ pUnchangedOthers

\* generationFunction throws: the item's promise rejects, allSettled keeps going
ItemGenerateThrows(f) ==
    /\ f \in FileNames
    /\ pItems[f].pc = "gen"
    /\ pGen' = [pGen EXCEPT ![f] = "threw"]
    /\ pItems' = [pItems EXCEPT ![f] = [pc |-> "settled", data |-> <<>>]]
    /\ UNCHANGED <<pFiles, pStart, pForce, pBatchSize, pRun, pPc, filesToProcess, pI>>
    /\ pUnchangedOthers

\* a processBatch that resolves with its first item (Promise.race)
EndBatchAtFirstSettled ==
    /\ pPc = "batches"
    /\ pInBatch # {}
    /\ \E f \in pInBatch : pItems[f].pc = "settled"
    /\ pItems' = [f \in FileNames |-> NoItem]
    /\ pI' = pI + pBatchSize
    /\ UNCHANGED <<pFiles, pStart, pForce, pBatchSize, pRun, pPc, filesToProcess, pGen>>
    /\ pUnchangedOthers

\* Promise.allSettled resolves; the loop of processInBatches adds batchSize to i
EndBatch ==
    /\ pPc = "batches"
    /\ pInBatch # {}
    /\ \A f \in pInBatch : pItems[f].pc = "settled"
    /\ pItems' = [f \in FileNames |-> NoItem]
    /\ pI' = pI + pBatchSize
    /\ UNCHANGED <<pFiles, pStart, pForce, pBatchSize, pRun, pPc, filesToProcess, pGen>>
    /\ pUnchangedOthers

\* processInBatches returns and processFiles with it
ProcessFilesReturns ==
    /\ pPc = "batches"
    /\ pInBatch = {}
    /\ pI >= Len(filesToProcess)
    /\ pPc' = "idle"
    /\ UNCHANGED <<pFiles, pStart, pForce, pBatchSize, pRun, filesToProcess, pI, pItems, pGen>>
    /\ pUnchangedOthers

NextProcess ==
    \/ \E force \in BOOLEAN, batchSize \in 1..MaxBatchSize : ProcessFiles(force, batchSize)
    \/ StartBatch
    \/ \E f \in FileIds : ItemRead(f)
    \/ \E f \in FileIds, valid \in BOOLEAN : ItemGenerate(f, valid)
    \/ \E f \in FileIds : ItemGenerateThrows(f)
    \/ EndBatch
    \/ ProcessFilesReturns

\* ------------------------------------------------------ initial states
\* a text of n words, each followed by a blank; the words name their file
FileText(file, n) ==
    [i \in 1..(2 * n) |-> IF i % 2 = 1 THEN file * 100 + (i + 1) \div 2 ELSE WS]

\* the data directory: 1 is a .txt file, 2 a .json file {"content": text}
DataDir(a, b) ==
    <<[kind |-> "txt", raw |-> FileText(1, a)],
      [kind |-> "json", raw |-> JsonOpen \o FileText(2, b) \o JsonClose]>>

WordCounts == {k * WordStep : k \in 0..MaxSteps}

\* a text of whitespace only
BlankText == <<WS, WS>>

\* the data directories: files of 0 to MaxSteps * WordStep words, and
\* directories in which one of the two files holds whitespace only
DataDirs ==
    {DataDir(a, b) : a \in WordCounts, b \in WordCounts}
    \cup {[DataDir(0, b) EXCEPT ![1].raw = BlankText] : b \in WordCounts}
    \cup {[DataDir(a, 0) EXCEPT ![2].raw = JsonOpen \o BlankText \o JsonClose] :
             a \in WordCounts}

InitIndexVars(dims) ==
    /\ files \in DataDirs
    /\ embedDims = dims
    /\ iPc = "load"
    /\ fi = 0
    /\ docs = <<>>
    /\ processedChunks = 0
    /\ attempt = 0
    /\ currentChunk = <<>>
    /\ tried = <<>>
    /\ log = <<>>
    /\ fileLog = <<>>
    /\ thrown = "none"
    /\ validEmbeddings = <<>>
    /\ validDocs = <<>>
    /\ index = IndexFlatL2(0)
    /\ indexData = [dim |-> 0, nbDocs |-> 0, flatArray |-> <<>>]
    /\ diskIndex = <<>>
    /\ diskMapping = <<>>

IdleIndexVars ==
    /\ files = <<>>
    /\ embedDims = {}
    /\ iPc = "idle"
    /\ fi = 0
    /\ docs = <<>>
    /\ processedChunks = 0
    /\ attempt = 0
    /\ currentChunk = <<>>
    /\ tried = <<>>
    /\ log = <<>>
    /\ fileLog = <<>>
    /\ thrown = "none"
    /\ validEmbeddings = <<>>
    /\ validDocs = <<>>
    /\ index = IndexFlatL2(0)
    /\ indexData = [dim |-> 0, nbDocs |-> 0, flatArray |-> <<>>]
    /\ diskIndex = <<>>
    /\ diskMapping = <<>>

\* what a clean indexing run over these files leaves on disk
CleanDocs(fs) == LoadedDocs(1, fs[1]) \o LoadedDocs(2, fs[2])
CleanSnapshot(fs) ==
    LET vs == [j \in 1..Len(CleanDocs(fs)) |-> EmbedVector(CleanDocs(fs)[j].pageContent, Dim)]
    IN  [dim |-> Dim, nbDocs |-> Len(vs), flatArray |-> Flat(vs)]

\* content files of one, two and three chunks
RetrWordCounts == {2 * WordStep, CHUNK_SIZE + 1, 2 * CHUNK_SIZE + 2}

\* queries near the first chunk, near a middle chunk and near the last file
QueryTexts == {FileText(1, 1), <<151, WS, 152>>, FileText(2, MAX_ALLOWED_WORDS)}

\* The data directory of a retrieving program: the snapshot of the last
\* indexing run, and the Document Map of that run or, the run having stopped
\* between its two writes, a shorter one of an earlier run; or no snapshot.
InitRetrVars ==
    /\ rVariant \in {"qa", "blog"}
    /\ rPc = "load"
    /\ rFiles \in {DataDir(a, b) : a \in RetrWordCounts, b \in RetrWordCounts}
    /\ \/ /\ rIndexJson = StringifyIndexData(CleanSnapshot(rFiles))
          /\ \E m \in 0..MaxStale :
                /\ m <= Len(CleanDocs(rFiles))
                /\ rMappingJson = StringifyMapping(
                       SubSeq(DocMapping(CleanDocs(rFiles)), 1, Len(CleanDocs(rFiles)) - m))
       \/ /\ rIndexJson = <<>>
          /\ rMappingJson = <<>>
    /\ rQuestions \in {<<q>> : q \in QueryTexts}
    /\ rQ = 0
    /\ queryEmbedding = <<>>
    /\ labels = <<>>
    /\ distances = <<>>
    /\ rI = 0
    /\ contextTexts = <<>>
    /\ rSources = [sources |-> <<>>, mappingReferences |-> <<>>]
    /\ rWarned = <<>>
    /\ rPosts = <<>>
    /\ rWhy = "none"

IdleRetrVars ==
    /\ rVariant = "none"
    /\ rPc = "idle"
    /\ rFiles = <<>>
    /\ rIndexJson = <<>>
    /\ rMappingJson = <<>>
    /\ rQuestions = <<>>
    /\ rQ = 0
    /\ queryEmbedding = <<>>
    /\ labels = <<>>
    /\ distances = <<>>
    /\ rI = 0
    /\ contextTexts = <<>>
    /\ rSources = [sources |-> <<>>, mappingReferences |-> <<>>]
    /\ rWarned = <<>>
    /\ rPosts = <<>>
    /\ rWhy = "none"

IdleChunkVars ==
    /\ cText = <<>>
    /\ cSize = 1
    /\ cChunks = <<>>
    /\ cPc = "idle"

\* ------------------------------------- the context job: initial states
\* "seo a", "seo b"
LabelSeoA == <<115, 101, 111, 32, 97>>
LabelSeoB == <<115, 101, 111, 32, 98>>
Labels == {LabelSeoA, LabelSeoB}

\* page_data.text of a row: n characters that name the row
PageText(url, n) == [i \in 1..n |-> 10 * url + 1]

\* what the LLM finds in a row: at most MaxItems labels
RECURSIVE ItemListsOfLen(_)
ItemListsOfLen(n) ==
    IF n = 0 THEN {<<>>}
    ELSE {Append(l, x) : l \in ItemListsOfLen(n - 1), x \in Labels}
ItemLists == UNION {ItemListsOfLen(n) : n \in 1..MaxItems}

\* the row of url u: a text of n characters and the labels the LLM finds
PageRow(u, n, items) == [url |-> u, text |-> PageText(u, n), items |-> items]

\* no text, a text below the content filter, a text that passes it
TextLengths == {0, MinTextLen - 1, MinTextLen}

\* the rows of url 1 (always a full text) and url 2, in either order
PageTables ==
    LET row1 == {PageRow(1, MinTextLen, l) : l \in ItemLists}
        row2 == {PageRow(2, n, l) : n \in TextLengths, l \in ItemLists}
    IN  {<<a, b>> : a \in row1, b \in row2} \cup {<<b, a>> : a \in row1, b \in row2}

\* the tables of the concurrent scenarios: url 1 carries one label
RacePageTables ==
    {<<PageRow(1, MinTextLen, <<a>>), PageRow(2, n, l)>> :
        a \in Labels, n \in TextLengths, l \in ItemLists}

InitCtxVars(concurrent, tables) ==
    /\ gVariant \in {"urls", "data"}
    /\ gConcurrent = concurrent
    /\ gPages \in tables
    /\ gSaved = {}
    /\ gStore = <<>>
    /\ gForce \in {[r \in Runs |-> r = 2 /\ b] : b \in {FALSE, gVariant = "data"}}
    /\ gPc = [r \in Runs |-> "idle"]
    /\ gList = [r \in Runs |-> <<>>]
    /\ gP = [r \in Runs |-> 0]
    /\ gItems = [r \in Runs |-> <<>>]
    /\ gT = [r \in Runs |-> 0]
    /\ gExisting = [r \in Runs |-> NoPoint]
    /\ gEmbedCalls = 0
    /\ gStale = {}
    /\ gFailures = <<>>

IdleCtxVars ==
    /\ gVariant = "none"
    /\ gConcurrent = FALSE
    /\ gPages = <<>>
    /\ gSaved = {}
    /\ gStore = <<>>
    /\ gForce = [r \in Runs |-> FALSE]
    /\ gPc = [r \in Runs |-> "off"]
    /\ gList = [r \in Runs |-> <<>>]
    /\ gP = [r \in Runs |-> 0]
    /\ gItems = [r \in Runs |-> <<>>]
    /\ gT = [r \in Runs |-> 0]
    /\ gExisting = [r \in Runs |-> NoPoint]
    /\ gEmbedCalls = 0
    /\ gStale = {}
    /\ gFailures = <<>>

\* ------------------------------------------ the report: initial states
\* "b", " ai", "7", "c", "d", "e", "ai", "[x": what the rows list as interests
RawLabels == <<<<98>>, <<32, 97, 105>>, <<55>>, <<99>>, <<100>>, <<101>>,
               <<97, 105>>, <<91, 120>>>>

\* the interests of a row: at most MaxInterests labels in a row of RawLabels
InterestLists ==
    {SubSeq(RawLabels, a, Min(a + n - 1, Len(RawLabels))) :
        a \in 1..Len(RawLabels), n \in 0..MaxInterests}

RECURSIVE RowTables(_)
RowTables(n) ==
    IF n = 0 THEN {<<>>}
    ELSE {Append(t, [url |-> n, interests |-> l]) :
             t \in RowTables(n - 1), l \in InterestLists}

EmptyReport == Report(<<>>, FALSE)

InitRepVars ==
    /\ repRows \in RowTables(MaxRows)
    /\ repIgnore \in BOOLEAN
    /\ repPc = "input"
    /\ repResult = EmptyReport

IdleRepVars ==
    /\ repRows = <<>>
    /\ repIgnore = FALSE
    /\ repPc = "idle"
    /\ repResult = EmptyReport

\* ------------------------------------- processFiles: initial states
Unparseable == [parse |-> FALSE, title |-> "blank", content |-> "empty",
                field |-> [set |-> "absent", by |-> 0], failed |-> FALSE]

DataFiles ==
    {Unparseable} \cup
    [parse : {TRUE}, title : {"blank", "titled"}, content : {"empty", "text"},
     field : [set : {"absent", "blank", "value"}, by : {0}], failed : BOOLEAN]

\* the data files that pass the filter of a forced run
ReadyFiles == {d \in DataFiles : NeedsProcessing(TRUE, d)}

InitProcVars(n, kinds) ==
    /\ pFiles \in [1..n -> kinds]
    /\ pStart = pFiles
    /\ pForce = FALSE
    /\ pBatchSize = 1
    /\ pRun = 0
    /\ pPc = "idle"
    /\ filesToProcess = <<>>
    /\ pI = 0
    /\ pItems = [f \in FileNames |-> NoItem]
    /\ pGen = [f \in FileNames |-> "none"]

IdleProcVars ==
    /\ pFiles = <<>>
    /\ pStart = pFiles
    /\ pForce = FALSE
    /\ pBatchSize = 1
    /\ pRun = 0
    /\ pPc = "off"
    /\ filesToProcess = <<>>
    /\ pI = 0
    /\ pItems = [f \in FileNames |-> NoItem]
    /\ pGen = [f \in FileNames |-> "none"]

\* ------------------------------------- specification: chunkText alone
RECURSIVE TextsOfLen(_)
TextsOfLen(n) ==
    IF n = 0 THEN {<<>>}
    ELSE {Append(t, c) : t \in TextsOfLen(n - 1), c \in {WS, 1, 2}}

ChunkTexts == UNION {TextsOfLen(n) : n \in 0..MaxTextLen}

InitChunkVars ==
    /\ cText \in ChunkTexts
    /\ cSize \in 1..MaxChunkSize
    /\ cChunks = <<>>
    /\ cPc = "input"

CallChunkText ==
    /\ cPc = "input"
    /\ cChunks' = chunkText(cText, cSize)
    /\ cPc' = "done"
    /\ UNCHANGED <<cText, cSize>>
    /\ UNCHANGED <<indexVars, retrVars, ctxVars, repVars, procVars, appVars>>

NextChunk == CallChunkText

\* ----------------------------------------------------- specifications
\* ------------------------------------------------ app.ts: POST /jobs/run
\* Unset (undefined): a header the request does not carry, a variable the
\* environment does not set, a "job" the body does not have
Unset == "undefined"

\* the values of the x-api-key header and of API_SECRET_KEY
HeaderValues == {Unset, "", "k1", "k2"}
SecretValues == {Unset, "", "k1"}

\* the "job" of the request body
JobNames == {"crawlStats", "generateContext"}
BodyJobs == {Unset} \cup JobNames

\* what the handler decides before runJob: the status it answers, or "run".
\* The current version looks at the body first and asks for the key unless
\* the job is in PUBLIC_JOBS; the earlier version asks for the key first.
JobsRunGate(version, secret, publicJobs, job, key) ==
    IF version = "current"
    THEN IF job = Unset THEN "400"
         ELSE IF job \notin publicJobs /\ key # secret THEN "401"
         ELSE "run"
    ELSE IF key \in {Unset, ""} \/ key # secret THEN "401"
         ELSE IF job = Unset THEN "400"
         ELSE "run"

Answered(job, key, status, ran) ==
    Append(aHandled, [job |-> job, key |-> key, status |-> status, runJob |-> ran])

aUnchangedEnv == UNCHANGED <<aVersion, aSecret, aPublicJobs>>

\* the request is answered 400 or 401 and runJob is not called
JobsRunRejected(job, key) ==
    /\ aVersion # "off"
    /\ Len(aHandled) < MaxRequests
    /\ JobsRunGate(aVersion, aSecret, aPublicJobs, job, key) # "run"
    /\ aHandled' = Answered(job, key,
                            JobsRunGate(aVersion, aSecret, aPublicJobs, job, key), FALSE)
    /\ aUnchangedEnv
    /\ UNCHANGED <<chunkVars, indexVars, retrVars, ctxVars, repVars, procVars>>

\* const result = await runJob(job, payload); return c.json({ result })
JobsRunResult(job, key) ==
    /\ aVersion # "off"
    /\ Len(aHandled) < MaxRequests
    /\ JobsRunGate(aVersion, aSecret, aPublicJobs, job, key) = "run"
    /\ aHandled' = Answered(job, key, "200", TRUE)
    /\ aUnchangedEnv
    /\ UNCHANGED <<chunkVars, indexVars, retrVars, ctxVars, repVars, procVars>>

\* runJob rejects: the handler answers 500 with the error's message
JobsRunError(job, key) ==
    /\ aVersion # "off"
    /\ Len(aHandled) < MaxRequests
    /\ JobsRunGate(aVersion, aSecret, aPublicJobs, job, key) = "run"
    /\ aHandled' = Answered(job, key, "500", TRUE)
    /\ aUnchangedEnv
    /\ UNCHANGED <<chunkVars, indexVars, retrVars, ctxVars, repVars, procVars>>

NextApp ==
    \E job \in BodyJobs, key \in HeaderValues :
        \/ JobsRunRejected(job, key)
        \/ JobsRunResult(job, key)
        \/ JobsRunError(job, key)

InitAppVars ==
    /\ aVersion \in {"current", "earlier"}
    /\ aSecret \in SecretValues
    /\ aPublicJobs \in SUBSET {"crawlStats"}
    /\ aHandled = <<>>

IdleAppVars ==
    /\ aVersion = "off"
    /\ aSecret = Unset
    /\ aPublicJobs = {}
    /\ aHandled = <<>>

InitChunk == InitChunkVars /\ IdleIndexVars /\ IdleRetrVars /\ IdleCtxVars /\ IdleRepVars /\ IdleProcVars /\ IdleAppVars

\* one call of chunkText on any short text
SpecChunk == InitChunk /\ [][NextChunk]_vars

InitIndex == InitIndexVars({Dim}) /\ IdleChunkVars /\ IdleRetrVars /\ IdleCtxVars /\ IdleRepVars /\ IdleProcVars /\ IdleAppVars

\* one indexing run; the embedding server answers with vectors of one length
SpecIndex == InitIndex /\ [][NextIndex]_vars

InitIndexMixed == InitIndexVars({Dim, 2 * Dim}) /\ IdleChunkVars /\ IdleRetrVars /\ IdleCtxVars /\ IdleRepVars /\ IdleProcVars /\ IdleAppVars

\* one indexing run; the embedding server may answer with a longer vector
SpecIndexMixed == InitIndexMixed /\ [][NextIndex]_vars

InitRetrieve == InitRetrVars /\ IdleChunkVars /\ IdleIndexVars /\ IdleCtxVars /\ IdleRepVars /\ IdleProcVars /\ IdleAppVars

\* one run of generateQA or of generateBlogPosts
SpecRetrieve == InitRetrieve /\ [][NextRetrieve]_vars

InitContext ==
    InitCtxVars(TRUE, RacePageTables) /\ IdleChunkVars /\ IdleIndexVars /\ IdleRetrVars
        /\ IdleRepVars /\ IdleProcVars /\ IdleAppVars

\* two context-job requests on one database, served concurrently
SpecContext == InitContext /\ [][NextContext]_vars

InitContextSeq ==
    InitCtxVars(FALSE, PageTables) /\ IdleChunkVars /\ IdleIndexVars /\ IdleRetrVars
        /\ IdleRepVars /\ IdleProcVars /\ IdleAppVars

\* two context-job requests on one database, served one after the other
SpecContextSeq == InitContextSeq /\ [][NextContext]_vars

InitReport ==
    InitRepVars /\ IdleChunkVars /\ IdleIndexVars /\ IdleRetrVars /\ IdleCtxVars
        /\ IdleProcVars /\ IdleAppVars

\* one run of the generateReport job
SpecReport == InitReport /\ [][NextReport]_vars

InitProcess ==
    InitProcVars(MaxFiles, DataFiles) /\ IdleChunkVars /\ IdleIndexVars /\ IdleRetrVars /\ IdleCtxVars
        /\ IdleRepVars /\ IdleAppVars

\* runs of processFiles over one data directory, one after the other
SpecProcess == InitProcess /\ [][NextProcess]_vars

InitBatches ==
    InitProcVars(MaxFiles + 1, ReadyFiles) /\ IdleChunkVars /\ IdleIndexVars /\ IdleRetrVars
        /\ IdleCtxVars /\ IdleRepVars /\ IdleAppVars

\* runs of processFiles over files that all have content: batches of several
\* items followed by further batches
SpecBatches == InitBatches /\ [][NextProcess]_vars

\* an indexing run that can be killed at any step
SpecIndexKill == InitIndex /\ [][NextIndexOrKill]_vars

InitApp ==
    InitAppVars /\ IdleChunkVars /\ IdleIndexVars /\ IdleRetrVars /\ IdleCtxVars
        /\ IdleRepVars /\ IdleProcVars

\* the server answers POST /jobs/run requests
SpecApp == InitApp /\ [][NextApp]_vars

\* -------------------------------------------------------------- C1
RECURSIVE ConcatWords(_, _)
ConcatWords(chunks, i) ==
    IF i > Len(chunks) THEN <<>>
    ELSE SplitWords(chunks[i]) \o ConcatWords(chunks, i + 1)

CeilDiv(a, b) == (a + b - 1) \div b

\* C1: chunkText(T, C) returns ceil(W/C) chunks, every chunk but the last has
\* exactly C words, and the chunks' words in order are T's words.
C1_ChunkCoversText ==
    cPc = "done" =>
        LET W == Len(SplitWords(cText)) IN
        /\ Len(cChunks) = CeilDiv(W, cSize)
        /\ \A j \in 1..Len(cChunks) :
              /\ j < Len(cChunks) => Len(SplitWords(cChunks[j])) = cSize
              /\ Len(SplitWords(cChunks[j])) \in 1..cSize
        /\ ConcatWords(cChunks, 1) = SplitWords(cText)

\* A text of three words, with more whitespace than one character between
\* words, cut into a full chunk and a shorter last one.
C1_Witness ==
    /\ cPc = "done"
    /\ Len(SplitWords(cText)) = 3
    /\ cSize = 2
    /\ Len(cChunks) = 2
    /\ JoinWords(SplitWords(cText)) # cText
\* -------------------------------------------------------------- C2
WordsOfText(t) == Len(SplitWords(t))

\* the texts of one safeEmbedChunk call: at most maxAttempts of them, each
\* the first floor(0.8 * n) words, and at least one word, of the one before
TriedByTheRule(t) ==
    /\ Len(t) <= 5
    /\ \A j \in 2..Len(t) :
          LET prev == SplitWords(t[j - 1])
              n == Len(prev)
              keep == IF (4 * n) \div 5 < 1 THEN 1 ELSE (4 * n) \div 5
          IN  /\ SplitWords(t[j]) = SubSeq(prev, 1, keep)
              /\ WordsOfText(t[j]) >= 1

\* C2: after an input-length failure the next embed call is on the first
\* floor(0.8 * n) words (at least 1) of the text tried before; one chunk gets
\* at most 5 embed calls; safeEmbedChunk ends with a result, an error or null.
C2_BoundedTruncationRetry ==
    /\ TriedByTheRule(tried)
    /\ \A j \in 1..Len(log) :
          /\ TriedByTheRule(log[j].tried)
          /\ log[j].tried # <<>>
          /\ log[j].outcome \in {"ok", "skipped"}
    /\ (iPc = "embed" /\ processedChunks < Len(docs)) =>
          (attempt < 5 /\ Len(tried) = attempt)
    /\ thrown \in {"timeout", "other"} => Len(tried) \in 1..5
    /\ iPc \in {"writeIndex", "writeMapping", "done"} => Len(log) = Len(docs)

\* A run in which one chunk went 30, 24, 19, 15, 12 words and was given up,
\* and a one-word chunk was retried as one word and embedded.
C2_Witness ==
    /\ iPc = "done"
    /\ \E j \in 1..Len(log) :
          /\ log[j].outcome = "skipped"
          /\ [a \in 1..5 |-> WordsOfText(log[j].tried[a])] = <<30, 24, 19, 15, 12>>
    /\ \E j \in 1..Len(log) :
          /\ log[j].outcome = "ok"
          /\ Len(log[j].tried) = 2
          /\ WordsOfText(log[j].tried[1]) = 1

\* -------------------------------------------------------------- C3
\* ordinal (0-based) of the j-th chunk, when it was embedded
OrdinalOf(j) == Cardinality({a \in 1..(j - 1) : log[a].outcome = "ok"})

\* chunks that failed once on length and were embedded on the retry
RetriedOnce == {j \in 1..Len(log) : log[j].outcome = "ok" /\ Len(log[j].tried) = 2}

\* C3 (as claimed): for a chunk embedded after one truncation, the vector at
\* its ordinal is the embedding of the truncated text and the text kept for
\* that ordinal, and the text retrieval resolves for it, is the truncated text.
C3_TruncatedTextStored ==
    iPc = "done" =>
        \A j \in RetriedOnce :
            LET o == OrdinalOf(j)
                snap == ParseIndexData(diskIndex)
                meta == ParseMapping(diskMapping)[o + 1]
            IN  /\ SubSeq(snap.flatArray, o * snap.dim + 1, (o + 1) * snap.dim)
                     = EmbedVector(log[j].tried[2], snap.dim)
                /\ validDocs[o + 1].pageContent = log[j].tried[2]
                /\ getChunkContent(files, meta, CHUNK_SIZE) = log[j].tried[2]

\* -------------------------------------------------------------- C4
RECURSIVE OkDocs(_)
OkDocs(j) ==
    IF j = 0 THEN <<>>
    ELSE IF log[j].outcome = "ok" THEN Append(OkDocs(j - 1), docs[j])
    ELSE OkDocs(j - 1)

\* C4: a chunk that always fails on input length is given up after exactly 5
\* embed calls and leaves no vector and no Document Map entry; the run goes
\* on, and every chunk that was embedded is in the snapshot and the map.
C4_ExhaustedChunkDropped ==
    /\ \A j \in 1..Len(log) :
          log[j].outcome = "skipped" => Len(log[j].tried) = 5
    /\ Len(log) = processedChunks
    /\ validDocs = OkDocs(Len(log))
    /\ Len(validEmbeddings) = Len(validDocs)
    /\ (iPc = "exit1" /\ thrown = "none") =>
          (processedChunks = Len(docs) /\ validEmbeddings = <<>>)
    /\ iPc = "done" =>
          /\ Len(log) = Len(docs)
          /\ ParseMapping(diskMapping) = DocMapping(OkDocs(Len(docs)))
          /\ ParseIndexData(diskIndex).nbDocs = Len(OkDocs(Len(docs)))

\* A persisted run that gave up the first chunk of a file, kept the second
\* chunk of the same file and kept a chunk of the other file.
C4_Witness ==
    /\ iPc = "done"
    /\ \E a, b, c \in 1..Len(log) :
          /\ log[a].outcome = "skipped"
          /\ log[b].outcome = "ok"
          /\ log[c].outcome = "ok"
          /\ docs[a].metadata.source = docs[b].metadata.source
          /\ docs[c].metadata.source # docs[a].metadata.source
          /\ Len(ParseMapping(diskMapping)) = Len(docs) - 1
\* -------------------------------------------------------------- C5
\* C5 (as claimed): an embed call that fails with a timeout is followed by a
\* retry of the same, untruncated input, or, at the attempt cap, by the chunk
\* being skipped; the embedding loop goes on either way.
C5_TimeoutRetriesUnchanged ==
    [][(iPc = "embed" /\ thrown' = "timeout") =>
          /\ iPc' = "embed"
          /\ \/ (attempt' = attempt + 1 /\ currentChunk' = currentChunk)
             \/ (processedChunks' = processedChunks + 1
                   /\ log'[Len(log')].outcome = "skipped")]_vars

\* -------------------------------------------------------------- C6
\* C6 (as claimed): with an embedding server that answers with vectors of one
\* length (no structural failure), no failure of a single chunk or file ends
\* the run with exit(1): it goes on to persist the snapshot and the map.
C6_ChunkFailureNeverAborts == iPc # "exit1"

C8_MixedDimensionAborts ==
    (\E j \in 1..Len(validEmbeddings) : Len(validEmbeddings[j]) # Len(validEmbeddings[1]))
        => (diskIndex = <<>> /\ iPc # "done")
\* -------------------------------------------------------------- C9
Queries == {EmbedVector(t, Dim) : t \in QueryTexts}

\* C9: the index rebuilt from the persisted snapshot holds the vectors of the
\* index built by the indexing run at the same ordinals, and answers every
\* search(q, k) as that index does (or throws as it does).
C9_SnapshotRoundTrip ==
    diskIndex # <<>> =>
        LET snap == ParseIndexData(diskIndex) IN
        /\ snap = indexData
        /\ ~RebuildThrows(snap)
        /\ Rebuilt(snap) = index
        /\ index.rows = validEmbeddings
        /\ \A q \in Queries : \A k \in 1..K :
              /\ SearchThrows(Rebuilt(snap), q, k) = SearchThrows(index, q, k)
              /\ ~SearchThrows(index, q, k) =>
                    Search(Rebuilt(snap), q, k) = Search(index, q, k)

\* A persisted snapshot of four vectors whose nearest rows to some query are
\* not in ordinal order.
C9_Witness ==
    /\ iPc = "done"
    /\ Len(index.rows) = 4
    /\ \E q \in Queries :
          /\ ~SearchThrows(Rebuilt(ParseIndexData(diskIndex)), q, 4)
          /\ Search(Rebuilt(ParseIndexData(diskIndex)), q, 4).labels[1] # 0

\* ------------------------------------------------------------- C10
ValidLabels(ls) == SelectSeq(ls, LAMBDA o : o >= 0 /\ o < Len(docMapping))
InvalidLabels(ls) == SelectSeq(ls, LAMBDA o : o < 0 \/ o >= Len(docMapping))

C11_EmptyResultNeverTerminates ==
    ~(rPc = "exit1" /\ rWhy \in {"embed", "search", "nocontext"})

\* ------------------------------------------------------------- C12
\* the chunks of file f as the file loop cut them, before the hard cap
IndexedChunks(f) == chunkText(ReadContent(files[f]), CHUNK_SIZE)

\* C12 (as claimed): for every Document Map entry of a persisted run,
\* getChunkContent(meta, 50) is the chunk text that the run produced for the
\* entry and handed to the embedder.
C12_RecomputedChunkIsIndexedChunk ==
    iPc = "done" =>
        \A o \in 1..Len(ParseMapping(diskMapping)) :
            LET meta == ParseMapping(diskMapping)[o] IN
            /\ getChunkContent(files, meta, CONFIG_chunkSize)
                  = IndexedChunks(meta.source)[meta.chunkIndex]
            /\ getChunkContent(files, meta, CONFIG_chunkSize) = validDocs[o].pageContent
            /\ EmbedVector(getChunkContent(files, meta, CONFIG_chunkSize), Dim)
                  = validEmbeddings[o]

\* ------------------------------------------------------------- C20
\* C20: every text handed to embedDocuments has at most MAX_ALLOWED_WORDS
\* words; the Document of a longer chunk holds the chunk's first
\* MAX_ALLOWED_WORDS words, the Document of any other chunk the chunk itself.
C20_HardCapOnEmbeddedText ==
    /\ \A a \in 1..Len(tried) : WordsOfText(tried[a]) <= 30
    /\ \A j \in 1..Len(log) : \A a \in 1..Len(log[j].tried) :
          WordsOfText(log[j].tried[a]) <= 30
    /\ \A j \in 1..Len(docs) :
          LET meta == docs[j].metadata
              whole == SplitWords(IndexedChunks(meta.source)[meta.chunkIndex])
          IN  /\ SplitWords(docs[j].pageContent) = SubSeq(whole, 1, Min(30, Len(whole)))
              /\ Len(whole) <= 30 =>
                    docs[j].pageContent = IndexedChunks(meta.source)[meta.chunkIndex]
    /\ \A j \in 1..Len(log) : log[j].tried[1] = docs[j].pageContent

\* A run that cut a chunk of 50 words down to its first 30, embedded it on a
\* retry with 24 words, and embedded a chunk of 17 words as it was.
C20_Witness ==
    /\ iPc = "done"
    /\ \E j \in 1..Len(log) :
          /\ Len(SplitWords(IndexedChunks(docs[j].metadata.source)
                                [docs[j].metadata.chunkIndex])) = CHUNK_SIZE
          /\ log[j].outcome = "ok"
          /\ [a \in 1..Len(log[j].tried) |-> WordsOfText(log[j].tried[a])] = <<30, 24>>
    /\ \E j \in 1..Len(log) :
          /\ log[j].outcome = "ok"
          /\ [a \in 1..Len(log[j].tried) |-> WordsOfText(log[j].tried[a])] = <<17>>

\* ------------------------------------------------------------- C13
gAllDone == \A r \in Runs : gPc[r] \in {"done", "failed"}

\* row carries label l: the row has a text and the LLM found l in it
Carries(row, l) == row.text # <<>> /\ \E i \in 1..Len(row.items) : row.items[i] = l

\* the labels sighted in some row and not dropped by the content filter
SightedLabels ==
    {l \in Labels : \E p \in 1..Len(gPages) :
        Carries(gPages[p], l) /\ ~Filtered(gVariant, l, gPages[p].text)}

\* C13: every point of the collection is the point of one sighted label and
\* its id is generateId(label); no label has two points; and when the rows
\* have been processed without a failing call, the point ids are exactly the
\* ids of the sighted labels, one point per label, whatever the order of the
\* rows and of the labels within a row.
C13_OnePointPerLabel ==
    /\ \A id \in DOMAIN gStore :
          /\ id = generateId(gStore[id].payload.field)
          /\ \E p \in 1..Len(gPages) : Carries(gPages[p], gStore[id].payload.field)
    /\ \A l \in Labels :
          Cardinality({id \in DOMAIN gStore : gStore[id].payload.field = l}) <= 1
    /\ (gAllDone /\ gFailures = <<>>) =>
          /\ DOMAIN gStore = {generateId(l) : l \in SightedLabels}
          /\ Cardinality(DOMAIN gStore) = Cardinality(SightedLabels)
          /\ \A l \in SightedLabels : gStore[generateId(l)].payload.field = l

\* Both job runs are over; url 2 was selected before url 1 and the two rows
\* list the same two labels in opposite orders; the collection has two points.
C13_Witness ==
    /\ gAllDone /\ gFailures = <<>>
    /\ gPages[1].url = 2
    /\ gPages[1].items = <<LabelSeoB, LabelSeoA>>
    /\ gPages[2].items = <<LabelSeoA, LabelSeoB>>
    /\ gPages[1].text # <<>>
    /\ Cardinality(DOMAIN gStore) = 2

\* ------------------------------------------------------------- C14
\* the contributions {text, url} a payload lists
Contributions(payload) ==
    {PayloadGet(payload, "data")[i] : i \in 1..Len(PayloadGet(payload, "data"))}

\* C14 (as claimed): when two rows carry a label (with a text that passes the
\* content filter, where there is one) and are processed one after the other
\* without a failing call, the collection has one point for the label and
\* its contributions include the text and the url of both rows.
C14_SequentialMergeKeepsBoth ==
    (gAllDone /\ gFailures = <<>>) =>
        \A l \in Labels :
            (\A p \in 1..Len(gPages) :
                Carries(gPages[p], l) /\ ~Filtered(gVariant, l, gPages[p].text)) =>
                /\ generateId(l) \in DOMAIN gStore
                /\ \A p \in 1..Len(gPages) :
                      [text |-> gPages[p].text, url |-> gPages[p].url]
                          \in Contributions(gStore[generateId(l)].payload)

\* ------------------------------------------------------------- C15
\* C15: a sighting that finds a point for its label takes the payload-only
\* path, and that path makes no getEmbedding call, adds and removes no point,
\* changes no stored vector and changes no other point.
C15_LaterSightingKeepsVector ==
    [][\A r \in Runs :
          /\ (gPc[r] = "term" /\ gPc'[r] \in {"merge", "embed"}) =>
                (gPc'[r] = "merge" <=> generateId(gTerm(r)) \in DOMAIN gStore)
          /\ (gPc[r] = "merge" /\ gPc'[r] # "merge") =>
                /\ gEmbedCalls' = gEmbedCalls
                /\ DOMAIN gStore' = DOMAIN gStore
                /\ \A id \in DOMAIN gStore :
                      /\ gStore'[id].vector = gStore[id].vector
                      /\ id # generateId(gTerm(r)) => gStore'[id] = gStore[id]]_vars

\* Two rows with texts of their own carried one label; the point lists both
\* contributions, its vector is the embedding of the first row's text, and
\* one getEmbedding call was made.
C15_Witness ==
    /\ gVariant = "data"
    /\ gAllDone /\ gFailures = <<>>
    /\ gEmbedCalls = 1
    /\ \E id \in DOMAIN gStore :
          /\ Len(PayloadGet(gStore[id].payload, "data")) >= 2
          /\ gStore[id].payload.data[1].url # gStore[id].payload.data[2].url
          /\ gStore[id].vector = EmbedVector(gStore[id].payload.data[1].text, Dim)
          /\ gStore[id].vector # EmbedVector(gStore[id].payload.data[2].text, Dim)

\* ------------------------------------------------------------- C16
\* the point of label l lacks the contribution of a row that carries l
MissingContribution(l) ==
    \E p \in 1..Len(gPages) :
        /\ Carries(gPages[p], l)
        /\ ~Filtered(gVariant, l, gPages[p].text)
        /\ IF gVariant = "urls"
           THEN \A i \in 1..Len(PayloadGet(gStore[generateId(l)].payload, "urls")) :
                    gStore[generateId(l)].payload.urls[i] # gPages[p].url
           ELSE [text |-> gPages[p].text, url |-> gPages[p].url]
                    \notin Contributions(gStore[generateId(l)].payload)

\* C16: nothing guards retrieve -> merge -> write-back.  When the runs are
\* over and no call failed, a point lacks a contribution only where a run
\* wrote on a read that another write had overtaken; and that happens (the
\* witness): both runs read the point, then both wrote.
C16_LostUpdateOnlyByRace ==
    (gAllDone /\ gFailures = <<>>) =>
        \A l \in SightedLabels :
            /\ generateId(l) \in DOMAIN gStore
            /\ MissingContribution(l) =>
                  \E kind \in {"merge", "create"} : <<generateId(l), kind>> \in gStale

\* Both runs found the point of a label, both wrote it back, and the point
\* that is left lacks the contribution of one of the two rows.
C16_Witness ==
    /\ gAllDone /\ gFailures = <<>>
    /\ \E l \in SightedLabels :
          /\ <<generateId(l), "merge">> \in gStale
          /\ <<generateId(l), "create">> \notin gStale
          /\ MissingContribution(l)

\* ------------------------------------------------------------- C17
\* the labels the rows list, and how often
RepItems == {<<r, i>> \in (1..Len(repRows)) \X (1..MaxInterests + 1) :
                i <= Len(repRows[r].interests)}
RepLabel(ri) == Trim(repRows[ri[1]].interests[ri[2]])
RepLabelsSeen == {RepLabel(ri) : ri \in {x \in RepItems : ~StartsWithBracket(RepLabel(x))}}
RepCount(l) == Cardinality({ri \in RepItems : RepLabel(ri) = l})

\* list is the first (at most TopN) elements of universe in the order
\* precedes, a table over the universe
IsRanking(list, universe, precedes) ==
    /\ Len(list) = Min(TopN, Cardinality(universe))
    /\ \A i \in 1..Len(list) : list[i] \in universe
    /\ \A i, j \in 1..Len(list) : i < j => precedes[list[i]][list[j]]
    /\ \A x \in universe : (\A i \in 1..Len(list) : list[i] # x)
                               => \A i \in 1..Len(list) : precedes[list[i]][x]

MoreFrequent ==
    [a \in RepLabelsSeen |-> [b \in RepLabelsSeen |->
        RepCount(a) > RepCount(b) \/ (RepCount(a) = RepCount(b) /\ LocaleLess(a, b))]]
LessFrequent ==
    [a \in RepLabelsSeen |-> [b \in RepLabelsSeen |->
        RepCount(a) < RepCount(b) \/ (RepCount(a) = RepCount(b) /\ LocaleLess(a, b))]]

\* C17: in the report, topInterests is the (at most 5) labels of highest
\* count, count descending, and underservedInterests the (at most 5) labels
\* of lowest count > 0, count ascending; labels of equal count are in
\* lexical order of their text.
C17_FrequencyRankedLabels ==
    (repPc = "done" /\ ~repIgnore) =>
        /\ IsRanking(repResult.topInterests, RepLabelsSeen, MoreFrequent)
        /\ IsRanking(repResult.underservedInterests, RepLabelsSeen, LessFrequent)

\* ------------------------------------------------------------- C18
\* the pages that list label l
RepPagesOf(l) == {repRows[ri[1]].url : ri \in {x \in RepItems : RepLabel(x) = l}}
RepSim(a, b) ==
    [n |-> Cardinality(RepPagesOf(a) \cap RepPagesOf(b)),
     d |-> Cardinality(RepPagesOf(a) \cup RepPagesOf(b))]
SameSim(x, y) == x.n * y.d = y.n * x.d

PairTextLess(x, y) ==
    \/ LocaleLess(x.interestA, y.interestA)
    \/ (x.interestA = y.interestA /\ LocaleLess(x.interestB, y.interestB))

\* the entries of list are label pairs with their similarity, ordered by
\* similarity (descending or ascending) and, at equal similarity, by label
\* text
IsPairRanking(list, descending) ==
    /\ \A i \in 1..Len(list) :
          /\ list[i].interestA \in RepLabelsSeen
          /\ list[i].interestB \in RepLabelsSeen
          /\ list[i].interestA # list[i].interestB
          /\ SameSim(list[i].similarity, RepSim(list[i].interestA, list[i].interestB))
    /\ \A i, j \in 1..Len(list) : i < j =>
          \/ IF descending THEN SimLess(list[j].similarity, list[i].similarity)
                            ELSE SimLess(list[i].similarity, list[j].similarity)
          \/ (SameSim(list[i].similarity, list[j].similarity) /\ PairTextLess(list[i], list[j]))

CoOccur(a, b) == RepPagesOf(a) \cap RepPagesOf(b) # {}
CoOccurringPairs == {p \in SUBSET RepLabelsSeen :
                        Cardinality(p) = 2 /\ \A a, b \in p : CoOccur(a, b)}
AllPairs == {p \in SUBSET RepLabelsSeen : Cardinality(p) = 2}

\* C18: the report lists the 5 most similar label pairs, similarity
\* descending, and as gap pairs the 5 least similar pairs among the labels
\* that occur together, similarity ascending; pairs of equal similarity are
\* in lexical order of the label text.
C18_SimilarAndGapPairs ==
    (repPc = "done" /\ ~repIgnore) =>
        /\ Len(repResult.interestCentroidSims) = Min(TopN, Cardinality(AllPairs))
        /\ IsPairRanking(repResult.interestCentroidSims, TRUE)
        /\ Len(repResult.interestGapPairs) = Min(TopN, Cardinality(CoOccurringPairs))
        /\ \A i \in 1..Len(repResult.interestGapPairs) :
              CoOccur(repResult.interestGapPairs[i].interestA,
                      repResult.interestGapPairs[i].interestB)
        /\ IsPairRanking(repResult.interestGapPairs, FALSE)


\* ------------------------------------------------------------- C19
\* a run with force has returned
ForcedRunDone == pPc = "idle" /\ pRun > 0 /\ pForce
HadContent(f) == pStart[f].parse /\ pStart[f].content = "text"
GeneratedNow(f) == pFiles[f].field = [set |-> "value", by |-> pRun]

\* C19 as stated: with force, processFiles regenerates the result field of
\* every data file that has non-empty content, files that already have the
\* field and files processed in an earlier run included.
C19_ForceRegeneratesEveryFile ==
    ForcedRunDone => \A f \in FileNames : HadContent(f) => GeneratedNow(f)

\* C19, amended: with force, processFiles calls the generation function for
\* every data file that has non-empty content and is not marked failed,
\* files that already have the field and files processed in an earlier run
\* included, and rewrites the result field of each of them for which the
\* generation returns a valid value.
C19_ForceRegeneratesUnfailedFiles ==
    ForcedRunDone =>
        \A f \in FileNames :
            (HadContent(f) /\ ~pStart[f].failed) =>
                /\ pGen[f] # "none"
                /\ pGen[f] = "valid" => GeneratedNow(f)

\* a forced second run has rewritten the field the first run generated
C19_Witness ==
    /\ ForcedRunDone
    /\ pRun = 2
    /\ \E f \in FileNames :
          /\ pStart[f].field = [set |-> "value", by |-> 1]
          /\ pGen[f] = "valid"
          /\ GeneratedNow(f)

\* ------------------------------------------------------------- C21
\* row o (0-based) of a snapshot
SnapshotRow(snap, o) == SubSeq(snap.flatArray, o * snap.dim + 1, (o + 1) * snap.dim)

IsPrefix(s, t) == Len(s) <= Len(t) /\ SubSeq(t, 1, Len(s)) = s

EmbedErrors == {"timeout", "other"}

\* C22: when the embed call of safeEmbedChunk fails with an error other than
\* the input-length error, that call is the last one for the chunk (and of
\* the run), and the error it failed with is the error that reaches the
\* caller: indexDocuments rejects with it and nothing is persisted.
C22_OtherErrorPropagates ==
    /\ [](thrown \in EmbedErrors => (iPc = "exit1" /\ diskIndex = <<>> /\ diskMapping = <<>>))
    /\ [][/\ (thrown = "none" /\ thrown' \in EmbedErrors) =>
                /\ iPc = "embed" /\ iPc' = "exit1"
                /\ tried' = Append(tried, currentChunk)
                /\ UNCHANGED <<attempt, currentChunk, processedChunks, log,
                               validEmbeddings, validDocs>>
          /\ thrown \in EmbedErrors => UNCHANGED <<thrown, tried, attempt, log>>]_vars

\* The second embed call of a chunk, made after a truncation, failed with
\* another error, after an earlier chunk had been embedded.
C22_Witness ==
    /\ thrown \in EmbedErrors
    /\ iPc = "exit1"
    /\ Len(tried) = 2 /\ attempt = 1
    /\ processedChunks >= 1
    /\ validEmbeddings # <<>>

\* ------------------------------------------------------------- C23
\* the labels with a centroid: those with a page that has an embedding
RepHasVector(ri) == getPageEmbedding("db", repRows[ri[1]].url) # <<>>
RepWithCentroid ==
    {l \in RepLabelsSeen : \E ri \in RepItems : RepLabel(ri) = l /\ RepHasVector(ri)}

\* the sum of the page vectors of label l, one for each listing of l
RECURSIVE RepVectorSum(_, _)
RepVectorSum(items, dim) ==
    IF items = {} THEN [i \in 1..dim |-> 0]
    ELSE LET ri == CHOOSE x \in items : TRUE
             vec == getPageEmbedding("db", repRows[ri[1]].url)[1]
             rest == RepVectorSum(items \ {ri}, dim)
         IN  [i \in 1..dim |-> rest[i] + vec[i]]

RepCentroidSum(l) ==
    LET items == {ri \in RepItems : RepLabel(ri) = l /\ RepHasVector(ri)}
        any == CHOOSE x \in items : TRUE
    IN  RepVectorSum(items, Len(getPageEmbedding("db", repRows[any[1]].url)[1]))

\* the pairs the report lists, most similar and gap pairs together
RepListed ==
    {repResult.interestCentroidSims[i] : i \in 1..Len(repResult.interestCentroidSims)}
    \cup {repResult.interestGapPairs[i] : i \in 1..Len(repResult.interestGapPairs)}

\* the two lists have n entries each, of n different label pairs
ListsPairs(n) ==
    /\ Len(repResult.interestCentroidSims) = n
    /\ Len(repResult.interestGapPairs) = n
    /\ \A list \in {repResult.interestCentroidSims, repResult.interestGapPairs} :
          \A i, j \in 1..Len(list) :
              i # j => {list[i].interestA, list[i].interestB}
                         # {list[j].interestA, list[j].interestB}

\* C23: the label pairs are scored by the cosine similarity of the label
\* centroids exactly when at least two labels have a centroid, and then
\* only labels with a centroid are compared; when fewer than two labels
\* have one, every pair of labels is scored by the Jaccard similarity of
\* the sets of page urls that carry the two labels.
C23_CosineOrJaccard ==
    (repPc = "done" /\ ~repIgnore) =>
        IF Cardinality(RepWithCentroid) >= 2
        THEN /\ ListsPairs(Min(TopN, Cardinality({p \in SUBSET RepWithCentroid :
                                                     Cardinality(p) = 2})))
             /\ \A e \in RepListed :
                   /\ {e.interestA, e.interestB} \subseteq RepWithCentroid
                   /\ e.interestA # e.interestB
                   /\ e.similarity = cosineSimilarity(RepCentroidSum(e.interestA),
                                                      RepCentroidSum(e.interestB))
        ELSE /\ ListsPairs(Min(TopN, Cardinality(AllPairs)))
             /\ \A e \in RepListed :
                   /\ {e.interestA, e.interestB} \subseteq RepLabelsSeen
                   /\ e.interestA # e.interestB
                   /\ IF RepPagesOf(e.interestA) \cup RepPagesOf(e.interestB) = {}
                      THEN e.similarity = [n |-> 0, d |-> 1]
                      ELSE e.similarity = RepSim(e.interestA, e.interestB)

\* A report over labels none of which has a centroid, with a pair of labels
\* that share one of their two pages: Jaccard similarity 1/2.
C23_Witness ==
    /\ repPc = "done" /\ ~repIgnore
    /\ Cardinality(RepWithCentroid) < 2
    /\ Cardinality(RepLabelsSeen) >= 3
    /\ \E e \in RepListed : e.similarity = [n |-> 1, d |-> 2]

\* ------------------------------------------------------------- C24
\* the files of the batch that starts at i
BatchAt(i) == SeqToSet(Slice(filesToProcess, i, i + pBatchSize))

\* C24: processInBatches starts a batch only when no item of an earlier
\* batch is unsettled, and leaves a batch only when each of its items has
\* settled; the batches are the slices of batchSize files taken in input
\* order, so that every file the filter kept is in exactly one batch.
C24_BatchesStrictlyOrdered ==
    /\ [](pPc = "batches" =>
            /\ pI % pBatchSize = 0
            /\ pInBatch \in {{}, BatchAt(pI)})
    /\ [][/\ (pPc = "batches" /\ pPc' = "batches" /\ pI' # pI) =>
                /\ pI' = pI + pBatchSize
                /\ pInBatch = BatchAt(pI) /\ pInBatch # {}
                /\ \A f \in pInBatch : pItems[f].pc = "settled"
          /\ (pPc = "batches" /\ \E f \in FileNames :
                    pItems[f].pc = "none" /\ pItems'[f].pc # "none") =>
                /\ pInBatch = {}
                /\ pI' = pI
                /\ \A f \in FileNames : pItems'[f].pc = IF f \in BatchAt(pI)
                                                       THEN "read" ELSE "none"
          /\ (pPc = "batches" /\ pPc' = "idle") =>
                (pInBatch = {} /\ pI >= Len(filesToProcess))]_vars

\* A batch of two files has been left and the batch of the third file is
\* in progress.
C24_Witness ==
    /\ pPc = "batches"
    /\ pBatchSize = 2
    /\ Len(filesToProcess) = 3
    /\ pI = 2
    /\ pInBatch = {filesToProcess[3]}
    /\ pFiles[filesToProcess[1]] # pStart[filesToProcess[1]]
    /\ pFiles[filesToProcess[2]] # pStart[filesToProcess[2]]

\* ------------------------------------------------------------- C25
\* C25 (as claimed): when an indexing run is aborted at any step, the write
\* of docMapping.json after that of faiss_index.json included, the snapshot
\* and the Document Map on disk are a valid index of a prefix of the input:
\* the snapshot's count is the length of the map and the rows are those of
\* the map's chunks, ordinal by ordinal.
C25_AbortLeavesConsistentPrefix ==
    iPc = "killed" =>
        LET snap == IF diskIndex = <<>> THEN [dim |-> 0, nbDocs |-> 0, flatArray |-> <<>>]
                    ELSE ParseIndexData(diskIndex)
            map == IF diskMapping = <<>> THEN <<>> ELSE ParseMapping(diskMapping)
        IN  /\ snap.nbDocs = Len(map)
            /\ Len(snap.flatArray) = snap.dim * snap.nbDocs
            /\ \A o \in 1..Len(map) :
                  \E j \in 1..Len(log) :
                      /\ log[j].outcome = "ok"
                      /\ OrdinalOf(j) = o - 1
                      /\ map[o] = docs[j].metadata

\* ------------------------------------------------------------- C26
IsBlank(text) == \A k \in 1..Len(text) : text[k] = WS

\* the files the file loop has read whose text is empty or whitespace only
BlankFilesRead ==
    {j \in 1..Len(fileLog) :
        /\ fileLog[j].level # "error"
        /\ IsBlank(ReadContent(files[fileLog[j].file]))}

\* a blank file gives zero chunks and no Document, so no vector and no map
\* entry, and the run goes on to the other files and does not fail on it
BlankFileContributesNothing ==
    \A j \in BlankFilesRead :
        /\ fileLog[j].chunks = 0
        /\ \A d \in 1..Len(docs) : docs[d].metadata.source # fileLog[j].file
        /\ \A o \in 1..Len(validDocs) : validDocs[o].metadata.source # fileLog[j].file
        /\ iPc = "done" =>
              \A f \in 1..Len(files) :
                  (\E k \in 1..Len(fileLog) :
                       fileLog[k].file = f /\ fileLog[k].level = "info"
                       /\ fileLog[k].chunks > 0)
                  => \E d \in 1..Len(docs) : docs[d].metadata.source = f

\* C26 (as claimed): a document whose text is empty or whitespace only gives
\* zero chunks, no vector and no Document Map entry, the other documents are
\* still indexed, and the file is skipped with a warning in the log.
C26_BlankDocumentSkippedWithWarning ==
    /\ BlankFileContributesNothing
    /\ \A j \in BlankFilesRead : fileLog[j].level = "warn"

\* ------------------------------------------------------------- C27
\* the pages a point lists as contributors, one entry per contribution
Contributors(point) ==
    IF "urls" \in DOMAIN point.payload
    THEN point.payload.urls
    ELSE [i \in 1..Len(PayloadGet(point.payload, "data")) |->
             point.payload.data[i].url]

Lists(point, url) ==
    \E i \in 1..Len(Contributors(point)) : Contributors(point)[i] = url

\* C27 (as claimed): when a page is processed for a label whose point lists
\* the page already (a second run, forceRedo), the point's contributor list
\* is after the step what it was before it: no contribution is added twice.
C27_ReprocessingIsIdempotent ==
    [][\A r \in Runs :
          (/\ gPc[r] \in {"merge", "embed"}
           /\ gPc'[r] = "term"
           /\ gT'[r] = gT[r] + 1
           /\ generateId(gTerm(r)) \in DOMAIN gStore
           /\ Lists(gStore[generateId(gTerm(r))], gPage(r).url))
          => Contributors(gStore'[generateId(gTerm(r))])
               = Contributors(gStore[generateId(gTerm(r))])]_vars

\* ------------------------------------------------------------- C28
\* the labels of a saved row that pass the content filter
SavedLabels(row) ==
    {row.items[i] : i \in {k \in 1..Len(row.items) :
                              ~Filtered(gVariant, row.items[k], row.text)}}

\* the label has a point and the point lists the row's page
PointLists(label, url) ==
    /\ generateId(label) \in DOMAIN gStore
    /\ Lists(gStore[generateId(label)], url)

\* the saved rows of which some label has no point that lists them
SavedWithoutPoint ==
    {i \in 1..Len(gPages) :
        /\ gPages[i].url \in gSaved
        /\ \E label \in SavedLabels(gPages[i]) : ~PointLists(label, gPages[i].url)}

\* C28 (as claimed): once the runs that were started are completed, every
\* saved page is listed by the point of each of its labels that passes the
\* content filter; and a run that is not forced selects every saved page
\* that misses a point.
C28_SavedPagesReachTheStore ==
    /\ []((/\ \E r \in Runs : gPc[r] = "done"
           /\ \A r \in Runs : gPc[r] \in {"idle", "done"})
          => SavedWithoutPoint = {})
    /\ [][\A r \in Runs :
            (gPc[r] = "idle" /\ gPc'[r] # "idle" /\ ~gForce[r])
            => \A i \in SavedWithoutPoint :
                  \E k \in 1..Len(gList'[r]) : gList'[r][k] = gPages[i]]_vars

\* ------------------------------------------------------------- C29
\* C29 (as claimed): runJob is called for a job that is not in PUBLIC_JOBS
\* only when the request carries an x-api-key header and the header equals
\* API_SECRET_KEY; a request without the header never runs such a job,
\* whether API_SECRET_KEY is set or not.
C29_NonPublicJobNeedsTheKey ==
    \A i \in 1..Len(aHandled) :
        (aHandled[i].runJob /\ aHandled[i].job \notin aPublicJobs)
        => /\ aHandled[i].key # Unset
           /\ aHandled[i].key = aSecret

\* ------------------------------------------------------------- C30
\* the three ends of a file that went through processBatch in this run
EndedSkipped(f) == ~pForce /\ Truthy(pStart[f].field) /\ pFiles[f] = pStart[f]
EndedWritten(f) == pFiles[f].field = [set |-> "value", by |-> pRun]
EndedFailed(f) == pFiles[f].failed

EndsOf(f) ==
    {e \in {"skipped", "written", "failed"} :
        \/ e = "skipped" /\ EndedSkipped(f)
        \/ e = "written" /\ EndedWritten(f)
        \/ e = "failed" /\ EndedFailed(f)}

\* C30 (as claimed): a file whose item of processBatch has settled is in
\* exactly one of three states: skipped unchanged (the field was there and
\* the run is not forced), result field written, or marked failed; and no
\* run, forced or not, selects a file that is marked failed.
C30_ThreeEndsAndFailedStaysOut ==
    /\ [](\A f \in FileNames :
             pItems[f].pc = "settled" => Cardinality(EndsOf(f)) = 1)
    /\ [][(pPc = "idle" /\ pPc' = "batches")
             => \A k \in 1..Len(filesToProcess') :
                   ~pFiles[filesToProcess'[k]].failed]_vars

====
